---------------------------- MODULE Spec2Model ----------------------------
(***************************************************************************)
(* Model of the endpoints reconciler of the connect-inject control plane   *)
(* (EndpointsController, src/unnamed/part_001).                            *)
(*                                                                         *)
(* Strings that the code concatenates, splits, trims or parses are         *)
(* sequences of one-character strings, so that fmt.Sprintf, strings.Split, *)
(* strings.HasPrefix and strconv.ParseInt are computed and not assumed.    *)
(* IP addresses are only ever compared and are kept as plain strings.      *)
(***************************************************************************)
EXTENDS Integers, Sequences, FiniteSets, TLC

(***************************************************************************)
(* Annotation keys and metadata keys of package connectinject.             *)
(***************************************************************************)
annotationStatus ==
    <<"c","o","n","s","u","l",".","h","a","s","h","i","c","o","r","p",".","c","o","m","/","c","o","n","n","e","c","t","-","i","n","j","e","c","t","-","s","t","a","t","u","s">>
injected ==
    <<"i","n","j","e","c","t","e","d">>
annotationService ==
    <<"c","o","n","s","u","l",".","h","a","s","h","i","c","o","r","p",".","c","o","m","/","c","o","n","n","e","c","t","-","s","e","r","v","i","c","e">>
annotationPort ==
    <<"c","o","n","s","u","l",".","h","a","s","h","i","c","o","r","p",".","c","o","m","/","c","o","n","n","e","c","t","-","s","e","r","v","i","c","e","-","p","o","r","t">>
annotationMeta ==
    <<"c","o","n","s","u","l",".","h","a","s","h","i","c","o","r","p",".","c","o","m","/","s","e","r","v","i","c","e","-","m","e","t","a","-">>
annotationTags ==
    <<"c","o","n","s","u","l",".","h","a","s","h","i","c","o","r","p",".","c","o","m","/","s","e","r","v","i","c","e","-","t","a","g","s">>
annotationConnectTags ==
    <<"c","o","n","s","u","l",".","h","a","s","h","i","c","o","r","p",".","c","o","m","/","c","o","n","n","e","c","t","-","s","e","r","v","i","c","e","-","t","a","g","s">>
annotationUpstreams ==
    <<"c","o","n","s","u","l",".","h","a","s","h","i","c","o","r","p",".","c","o","m","/","c","o","n","n","e","c","t","-","s","e","r","v","i","c","e","-","u","p","s","t","r","e","a","m","s">>
MetaKeyPodName ==
    <<"p","o","d","-","n","a","m","e">>
MetaKeyKubeServiceName ==
    <<"k","8","s","-","s","e","r","v","i","c","e","-","n","a","m","e">>
MetaKeyKubeNS ==
    <<"k","8","s","-","n","a","m","e","s","p","a","c","e">>
NamespaceSystem ==
    <<"k","u","b","e","-","s","y","s","t","e","m">>
NamespacePublic ==
    <<"k","u","b","e","-","p","u","b","l","i","c">>
LocalPathStorage ==
    <<"l","o","c","a","l","-","p","a","t","h","-","s","t","o","r","a","g","e">>

\* Annotation and label keys of the webhook (annotations.go is not among the sources).
keyTransparentProxy ==
    <<"c","o","n","s","u","l",".","h","a","s","h","i","c","o","r","p",".","c","o","m","/","t","r","a","n","s","p","a","r","e","n","t","-","p","r","o","x","y">>
keyConsulDNS ==
    <<"c","o","n","s","u","l",".","h","a","s","h","i","c","o","r","p",".","c","o","m","/","c","o","n","s","u","l","-","d","n","s">>
annotationPrometheusCAFile ==
    <<"c","o","n","s","u","l",".","h","a","s","h","i","c","o","r","p",".","c","o","m","/","p","r","o","m","e","t","h","e","u","s","-","c","a","-","f","i","l","e">>
annotationPrometheusCAPath ==
    <<"c","o","n","s","u","l",".","h","a","s","h","i","c","o","r","p",".","c","o","m","/","p","r","o","m","e","t","h","e","u","s","-","c","a","-","p","a","t","h">>
annotationPrometheusCertFile ==
    <<"c","o","n","s","u","l",".","h","a","s","h","i","c","o","r","p",".","c","o","m","/","p","r","o","m","e","t","h","e","u","s","-","c","e","r","t","-","f","i","l","e">>
annotationPrometheusKeyFile ==
    <<"c","o","n","s","u","l",".","h","a","s","h","i","c","o","r","p",".","c","o","m","/","p","r","o","m","e","t","h","e","u","s","-","k","e","y","-","f","i","l","e">>
annotationTProxyExcludeInboundPorts ==
    <<"c","o","n","s","u","l",".","h","a","s","h","i","c","o","r","p",".","c","o","m","/","t","r","a","n","s","p","a","r","e","n","t","-","p","r","o","x","y","-","e","x","c","l","u","d","e","-","i","n","b","o","u","n","d","-","p","o","r","t","s">>
annotationTProxyExcludeOutboundPorts ==
    <<"c","o","n","s","u","l",".","h","a","s","h","i","c","o","r","p",".","c","o","m","/","t","r","a","n","s","p","a","r","e","n","t","-","p","r","o","x","y","-","e","x","c","l","u","d","e","-","o","u","t","b","o","u","n","d","-","p","o","r","t","s">>
annotationTProxyExcludeOutboundCIDRs ==
    <<"c","o","n","s","u","l",".","h","a","s","h","i","c","o","r","p",".","c","o","m","/","t","r","a","n","s","p","a","r","e","n","t","-","p","r","o","x","y","-","e","x","c","l","u","d","e","-","o","u","t","b","o","u","n","d","-","c","i","d","r","s">>
annotationTProxyExcludeUIDs ==
    <<"c","o","n","s","u","l",".","h","a","s","h","i","c","o","r","p",".","c","o","m","/","t","r","a","n","s","p","a","r","e","n","t","-","p","r","o","x","y","-","e","x","c","l","u","d","e","-","u","i","d","s">>
\* container_init.go, line 23
dnsServiceHostEnvSuffix ==
    <<"D","N","S","_","S","E","R","V","I","C","E","_","H","O","S","T">>
\* The letters strings.ToUpper maps, and their images.
LowerCase ==
    <<"a","b","c","d","e","f","g","h","i","j","k","l","m","n","o","p","q","r","s","t","u","v","w","x","y","z">>
UpperCase ==
    <<"A","B","C","D","E","F","G","H","I","J","K","L","M","N","O","P","Q","R","S","T","U","V","W","X","Y","Z">>

(***************************************************************************)
(* Literals used by the code and by the modelled inputs.                   *)
(***************************************************************************)
DASH ==
    <<"-">>
SidecarProxySuffix ==
    <<"-","s","i","d","e","c","a","r","-","p","r","o","x","y">>
PreparedQueryToken ==
    <<"p","r","e","p","a","r","e","d","_","q","u","e","r","y">>
Wildcard ==
    <<"*">>
KindPod ==
    <<"P","o","d">>
KindNode ==
    <<"N","o","d","e">>
LocalhostIP ==
    "127.0.0.1"
ProxyListenerPort ==
    20000
MaxInt32 ==
    2147483647
MinInt32 ==
    (0 - MaxInt32) - 1

(***************************************************************************)
(* package strings                                                         *)
(***************************************************************************)
HasPrefix(s, prefix) ==
    /\ Len(s) >= Len(prefix)
    /\ SubSeq(s, 1, Len(prefix)) = prefix

TrimPrefix(s, prefix) ==
    IF HasPrefix(s, prefix) THEN SubSeq(s, Len(prefix) + 1, Len(s)) ELSE s

IsSpace(c) ==
    c \in {" ", "\t", "\n", "\r"}

RECURSIVE TrimLeft(_)
TrimLeft(s) ==
    IF s # <<>> /\ IsSpace(Head(s)) THEN TrimLeft(Tail(s)) ELSE s

RECURSIVE TrimRight(_)
TrimRight(s) ==
    IF s # <<>> /\ IsSpace(s[Len(s)]) THEN TrimRight(SubSeq(s, 1, Len(s) - 1)) ELSE s

TrimSpace(s) ==
    TrimRight(TrimLeft(s))

\* strings.SplitN(s, sep, n) for a one-character separator; n < 0 means no limit.
RECURSIVE SplitN(_, _, _)
SplitN(s, sep, n) ==
    IF n = 1 \/ ~(\E i \in 1..Len(s) : s[i] = sep)
    THEN <<s>>
    ELSE LET i == CHOOSE k \in 1..Len(s) :
                      s[k] = sep /\ \A j \in 1..(k - 1) : s[j] # sep
         IN  <<SubSeq(s, 1, i - 1)>>
                 \o SplitN(SubSeq(s, i + 1, Len(s)), sep, IF n < 0 THEN n ELSE n - 1)

Split(s, sep) ==
    SplitN(s, sep, -1)

(***************************************************************************)
(* strconv.ParseInt(value, 0, 32): optional sign, base taken from the      *)
(* prefix (0x, 0b, 0o, leading 0), at least one digit, every digit below   *)
(* the base.  A syntax error yields 0; a value outside the 32-bit range    *)
(* yields the nearest bound together with a range error.  (Underscore      *)
(* digit separators do not occur in the modelled inputs.)                  *)
(***************************************************************************)
DigitVal(c) ==
    CASE c = "0" -> 0 [] c = "1" -> 1 [] c = "2" -> 2 [] c = "3" -> 3
      [] c = "4" -> 4 [] c = "5" -> 5 [] c = "6" -> 6 [] c = "7" -> 7
      [] c = "8" -> 8 [] c = "9" -> 9
      [] c \in {"a", "A"} -> 10 [] c \in {"b", "B"} -> 11
      [] c \in {"c", "C"} -> 12 [] c \in {"d", "D"} -> 13
      [] c \in {"e", "E"} -> 14 [] c \in {"f", "F"} -> 15
      [] OTHER -> 99

\* Digits of s in the given base, accumulated as a non-positive number so that
\* the magnitude 2^31 is representable; over is set once the magnitude exceeds
\* 2^31, bad once a character is not a digit of the base.
RECURSIVE ParseDigits(_, _, _)
ParseDigits(s, base, st) ==
    IF s = <<>> \/ st.bad THEN st
    ELSE LET d == DigitVal(Head(s))
         IN  IF d >= base
             THEN [st EXCEPT !.bad = TRUE]
             ELSE IF st.over \/ st.acc < (MinInt32 + d + base - 1) \div base
                  THEN ParseDigits(Tail(s), base, [st EXCEPT !.over = TRUE])
                  ELSE ParseDigits(Tail(s), base,
                                   [st EXCEPT !.acc = st.acc * base - d])

\* The base the prefix of the unsigned text selects, and the digits after it.
BaseOf(body) ==
    IF body[1] # "0" THEN 10
    ELSE IF Len(body) >= 3 /\ body[2] \in {"b", "B"} THEN 2
    ELSE IF Len(body) >= 3 /\ body[2] \in {"x", "X"} THEN 16
    ELSE 8

DigitsOf(body) ==
    IF body[1] # "0" THEN body
    ELSE IF Len(body) >= 3 /\ body[2] \in {"b", "B", "o", "O", "x", "X"}
         THEN SubSeq(body, 3, Len(body))
    ELSE Tail(body)

ParseUint(body) ==
    IF body = <<>>
    THEN [acc |-> 0, over |-> FALSE, bad |-> TRUE]
    ELSE ParseDigits(DigitsOf(body), BaseOf(body),
                     [acc |-> 0, over |-> FALSE, bad |-> FALSE])

\* The signed 32-bit result of the parsed magnitude.
Signed(neg, st) ==
    IF st.bad
    THEN [val |-> 0, err |-> TRUE]
    ELSE IF neg
         THEN IF st.over THEN [val |-> MinInt32, err |-> TRUE]
              ELSE [val |-> st.acc, err |-> FALSE]
         ELSE IF st.over \/ st.acc = MinInt32
              THEN [val |-> MaxInt32, err |-> TRUE]
              ELSE [val |-> 0 - st.acc, err |-> FALSE]

ParseInt(value) ==
    IF value # <<>> /\ Head(value) \in {"+", "-"}
    THEN Signed(Head(value) = "-", ParseUint(Tail(value)))
    ELSE Signed(FALSE, ParseUint(value))

(***************************************************************************)
(* A Go map[string]string is a function whose domain is the set of keys    *)
(* present; a nil pointer or nil slice is the empty sequence.              *)
(***************************************************************************)
Has(m, k) ==
    k \in DOMAIN m

\* m[k] = v of a Go map: adds the key or overwrites its value.
MapSet(m, k, v) ==
    [x \in (DOMAIN m) \cup {k} |-> IF x = k THEN v ELSE m[x]]

\* Index of the first container port named value, 0 when there is none.
FirstNamedPort(ports, value) ==
    IF \E i \in 1..Len(ports) : ports[i].Name = value
    THEN CHOOSE i \in 1..Len(ports) :
             ports[i].Name = value /\ \A j \in 1..(i - 1) : ports[j].Name # value
    ELSE 0

ParsedPort(r) ==
    [port |-> r.val, err |-> r.err]

\* portValue(pod, value): the first container port named value, else the value
\* parsed as an integer, truncated to int32, together with the parse error.
portValue(pod, value) ==
    IF FirstNamedPort(pod.Ports, value) # 0
    THEN [port |-> pod.Ports[FirstNamedPort(pod.Ports, value)].ContainerPort, err |-> FALSE]
    ELSE ParsedPort(ParseInt(value))

\* Variant: any value of the status annotation counts.
hasBeenInjected_anyValue(pod) ==
    annotationStatus \in DOMAIN pod.Annotations

\* hasBeenInjected: the status annotation is present and equals "injected".
hasBeenInjected(pod) ==
    /\ Has(pod.Annotations, annotationStatus)
    /\ pod.Annotations[annotationStatus] = injected

\* Variant: a match of the allow list is decided first.
shouldIgnore_allowWins(namespace, denySet, allowSet) ==
    IF Wildcard \in allowSet \/ namespace \in allowSet
    THEN FALSE
    ELSE TRUE

\* shouldIgnore(namespace, denySet, allowSet)
shouldIgnore(namespace, denySet, allowSet) ==
    IF namespace \in {NamespaceSystem, NamespacePublic, LocalPathStorage}
    THEN TRUE
    ELSE IF namespace \in denySet
         THEN TRUE
         ELSE IF Wildcard \notin allowSet /\ namespace \notin allowSet
              THEN TRUE
              ELSE FALSE

(***************************************************************************)
(* processUpstreams.  cfg[i] is the answer of ConsulClient.ConfigEntries() *)
(* .Get(proxy-defaults, global) to the lookup made for the i-th entry of   *)
(* the annotation: [kind |-> "ok", mode |-> m], [kind |-> "notfound"] (the *)
(* 404 answer) or [kind |-> "neterr"].  The result is "ok" with the list,  *)
(* "err" with an empty list, or "panic" when parts[1] or parts[2] is       *)
(* indexed beyond the length of parts.                                     *)
(***************************************************************************)
MeshGatewayModeLocal ==
    "local"
MeshGatewayModeRemote ==
    "remote"

UpstreamEntries(pod) ==
    IF Has(pod.Annotations, annotationUpstreams) /\ pod.Annotations[annotationUpstreams] # <<>>
    THEN Split(pod.Annotations[annotationUpstreams], ",")
    ELSE <<>>

\* Lines 356-371: the upstream is appended when its port is positive.
UpstreamOf(type, name, datacenter, port) ==
    IF port > 0
    THEN [res |-> "append",
          up  |-> <<[DestinationType |-> type, DestinationName |-> name,
                     Datacenter |-> datacenter, LocalBindPort |-> port]>>]
    ELSE [res |-> "skip", up |-> <<>>]

\* Variant: every failed lookup stops the builder.
Blocked_anyFailure(answer) ==
    \/ answer.kind # "ok"
    \/ /\ answer.mode # MeshGatewayModeLocal
       /\ answer.mode # MeshGatewayModeRemote

\* Variant: only the mode of an entry that exists stops the builder.
Blocked_modeOnly(answer) ==
    /\ answer.kind = "ok"
    /\ answer.mode # MeshGatewayModeLocal
    /\ answer.mode # MeshGatewayModeRemote

\* Lines 341-349: the answer to the proxy-defaults lookup stops the builder.
Blocked(answer) ==
    \/ answer.kind = "notfound"
    \/ /\ answer.kind = "ok"
       /\ answer.mode # MeshGatewayModeLocal
       /\ answer.mode # MeshGatewayModeRemote

\* Lines 320-371 for the parts of one entry.
UpstreamOfParts(pod, parts, answer) ==
    IF TrimSpace(parts[1]) = PreparedQueryToken
    THEN IF Len(parts) < 3
         THEN [res |-> "panic", up |-> <<>>]
         ELSE UpstreamOf("prepared_query", TrimSpace(parts[2]), <<>>,
                         portValue(pod, TrimSpace(parts[3])).port)
    ELSE IF Len(parts) < 2
         THEN [res |-> "panic", up |-> <<>>]
         ELSE IF Len(parts) > 2 /\ Blocked(answer)
              THEN [res |-> "err", up |-> <<>>]
              ELSE UpstreamOf("service", TrimSpace(parts[1]),
                              IF Len(parts) > 2 THEN TrimSpace(parts[3]) ELSE <<>>,
                              portValue(pod, TrimSpace(parts[2])).port)

\* One iteration of the loop over the entries: "append" with the upstream,
\* "skip" (port not positive), "err" or "panic".
processUpstreamEntry(pod, raw, answer) ==
    UpstreamOfParts(pod, SplitN(raw, ":", 3), answer)

\* The loop goes on after an entry unless it returned or panicked.
Continue(upstreams, e) ==
    IF e.res \in {"err", "panic"}
    THEN [res |-> e.res, upstreams |-> <<>>]
    ELSE [res |-> "next", upstreams |-> upstreams \o e.up]

RECURSIVE processUpstreamsFrom(_, _, _, _, _)
processUpstreamsFrom(pod, entries, cfg, i, step) ==
    IF step.res # "next"
    THEN step
    ELSE IF i > Len(entries)
         THEN [res |-> "ok", upstreams |-> step.upstreams]
         ELSE processUpstreamsFrom(pod, entries, cfg, i + 1,
                  Continue(step.upstreams,
                           processUpstreamEntry(pod, entries[i], cfg[i])))

processUpstreams(pod, cfg) ==
    processUpstreamsFrom(pod, UpstreamEntries(pod), cfg, 1, [res |-> "next", upstreams |-> <<>>])

(***************************************************************************)
(* createServiceRegistrations(pod, serviceEndpoints): res is "ok" with the *)
(* service and the proxy registration, "err" or "panic".                   *)
(***************************************************************************)
\* Lines 142-150: the service port.  The parse error is looked at only when
\* the returned port is positive.
PortOf(pv) ==
    IF pv.port > 0
    THEN IF pv.err THEN [err |-> TRUE, port |-> 0]
         ELSE [err |-> FALSE, port |-> pv.port]
    ELSE [err |-> FALSE, port |-> 0]

ServicePort(pod) ==
    IF Has(pod.Annotations, annotationPort) /\ pod.Annotations[annotationPort] # <<>>
    THEN PortOf(portValue(pod, pod.Annotations[annotationPort]))
    ELSE [err |-> FALSE, port |-> 0]

\* Lines 157-160
ServiceName(pod, serviceEndpoints) ==
    IF Has(pod.Annotations, annotationService) /\ pod.Annotations[annotationService] # <<>>
    THEN pod.Annotations[annotationService]
    ELSE serviceEndpoints.Name

\* Line 162
ServiceID(pod, serviceEndpoints) ==
    pod.Name \o DASH \o ServiceName(pod, serviceEndpoints)

\* Lines 196-197
ProxyName(serviceName) ==
    serviceName \o SidecarProxySuffix

ProxyID(pod, serviceName) ==
    pod.Name \o DASH \o ProxyName(serviceName)

ProxyServiceID(pod, serviceEndpoints) ==
    ProxyID(pod, ServiceName(pod, serviceEndpoints))

\* Lines 164-173: the three correlation keys, then every annotation with the
\* metadata prefix and a non-empty suffix, assigned over what is there.
MetaKeys(pod) ==
    {k \in DOMAIN pod.Annotations :
        HasPrefix(k, annotationMeta) /\ TrimPrefix(k, annotationMeta) # <<>>}

BaseMeta(pod, serviceEndpoints) ==
    (MetaKeyPodName :> pod.Name)
        @@ (MetaKeyKubeServiceName :> serviceEndpoints.Name)
        @@ (MetaKeyKubeNS :> serviceEndpoints.Namespace)

MetaWith(pod, base, extra) ==
    [x \in (DOMAIN base) \cup extra |->
        IF x \in extra THEN pod.Annotations[annotationMeta \o x] ELSE base[x]]

BuildMeta(pod, serviceEndpoints) ==
    MetaWith(pod, BaseMeta(pod, serviceEndpoints),
             {TrimPrefix(k, annotationMeta) : k \in MetaKeys(pod)})

\* Lines 175-182
BuildTags(pod) ==
    (IF Has(pod.Annotations, annotationTags) /\ pod.Annotations[annotationTags] # <<>>
     THEN Split(pod.Annotations[annotationTags], ",") ELSE <<>>)
    \o
    (IF Has(pod.Annotations, annotationConnectTags) /\ pod.Annotations[annotationConnectTags] # <<>>
     THEN Split(pod.Annotations[annotationConnectTags], ",") ELSE <<>>)

\* Lines 184-194
ServiceRegistration(pod, serviceName, serviceID, port, meta, tags) ==
    [Kind    |-> "",
     ID      |-> serviceID,
     Name    |-> serviceName,
     Port    |-> port,
     Address |-> pod.PodIP,
     Meta    |-> meta,
     Tags    |-> tags,
     Proxy   |-> <<>>,
     Checks  |-> <<>>]

\* Lines 196-241
ProxyRegistration(pod, serviceName, serviceID, port, meta, tags, upstreams) ==
    [Kind    |-> "connect-proxy",
     ID      |-> ProxyID(pod, serviceName),
     Name    |-> ProxyName(serviceName),
     Port    |-> ProxyListenerPort,
     Address |-> pod.PodIP,
     Meta    |-> meta,
     Tags    |-> tags,
     Proxy   |-> <<[DestinationServiceName |-> serviceName,
                    DestinationServiceID   |-> serviceID,
                    LocalServiceAddress    |-> IF port > 0 THEN LocalhostIP ELSE "",
                    LocalServicePort       |-> IF port > 0 THEN port ELSE 0,
                    Upstreams              |-> upstreams]>>,
     Checks  |-> <<[Name |-> "Proxy Public Listener",
                    TCP  |-> pod.PodIP \o ":20000",
                    AliasService |-> <<>>],
                   [Name |-> "Destination Alias",
                    TCP  |-> "",
                    AliasService |-> serviceID]>>]

\* The builder's result from its parts: the port error is returned first
\* (line 146), then the error of the upstreams (line 211).
Registrations(pod, serviceName, serviceID, sp, meta, tags, ups) ==
    IF sp.err
    THEN [res |-> "err", service |-> <<>>, proxy |-> <<>>]
    ELSE IF ups.res # "ok"
         THEN [res |-> ups.res, service |-> <<>>, proxy |-> <<>>]
         ELSE [res     |-> "ok",
               service |-> <<ServiceRegistration(pod, serviceName, serviceID, sp.port,
                                                 meta, tags)>>,
               proxy   |-> <<ProxyRegistration(pod, serviceName, serviceID, sp.port,
                                               meta, tags, ups.upstreams)>>]

createServiceRegistrations(pod, serviceEndpoints, cfg) ==
    Registrations(pod, ServiceName(pod, serviceEndpoints), ServiceID(pod, serviceEndpoints),
                  ServicePort(pod), BuildMeta(pod, serviceEndpoints), BuildTags(pod),
                  processUpstreams(pod, cfg))

(***************************************************************************)
(* The modelled cluster: namespaces, endpoint keys, pods, nodes and their  *)
(* agents.                                                                 *)
(***************************************************************************)
NsDefault ==
    <<"d","e","f","a","u","l","t">>
NsOther ==
    <<"o","t","h","e","r">>
SvcWeb ==
    <<"w","e","b">>
SvcApi ==
    <<"a","p","i">>
StatusOnly ==
    annotationStatus :> injected

MkPod(name, namespace, hostIP, podIP, annotations) ==
    [Name |-> name, Namespace |-> namespace, HostIP |-> hostIP, PodIP |-> podIP,
     Annotations |-> annotations, Ports |-> <<[Name |-> <<"h","t","t","p">>, ContainerPort |-> 8080]>>]

HostIP1 ==
    "192.168.0.1"
HostIP2 ==
    "192.168.0.2"

\* Injected pods on two hosts.
PodA ==
    MkPod(<<"a">>, NsDefault, HostIP1, "10.0.0.1", StatusOnly)
PodB ==
    MkPod(<<"b">>, NsDefault, HostIP2, "10.0.0.2", StatusOnly @@ (annotationTags :> <<"x",",","y">>))
\* Overrides the Consul service name.
PodC ==
    MkPod(<<"c">>, NsDefault, HostIP1, "10.0.0.3",
          StatusOnly @@ (annotationService :> <<"s","h","o","p">>)
                     @@ (annotationPort :> <<"h","t","t","p">>))
\* Not injected (no status annotation); has been given the IP that pod b had.
PodN ==
    MkPod(<<"n">>, NsDefault, HostIP1, "10.0.0.2", <<>>)
\* Injected; has been given the IP that pod b had, on the other host.
PodR ==
    MkPod(<<"r">>, NsDefault, HostIP1, "10.0.0.2", StatusOnly)
\* Status annotation present with another value.
PodX ==
    MkPod(<<"x">>, NsDefault, HostIP2, "10.0.0.6", annotationStatus :> <<"f","a","l","s","e">>)
\* Metadata annotations, one of them named like a correlation key, and a port
\* annotation that names no container port and is not a number.
PodM ==
    MkPod(<<"m">>, NsDefault, HostIP2, "10.0.0.4",
          StatusOnly @@ ((annotationMeta \o MetaKeyKubeServiceName) :> SvcApi)
                     @@ ((annotationMeta \o <<"t","e","a","m">>) :> <<"q","a">>)
                     @@ (annotationPort :> <<"a","b","c">>))
\* An upstream in another datacenter: the builder consults proxy-defaults.
PodU ==
    MkPod(<<"u">>, NsDefault, HostIP1, "10.0.0.5",
          StatusOnly @@ (annotationUpstreams :> <<"d","b",":","9","0",":","d","c","2">>))

\* Pods whose upstream annotation takes the shapes processUpstreams distinguishes.
\* One part only.
PodV ==
    MkPod(<<"v">>, NsDefault, HostIP1, "10.0.0.11",
          StatusOnly @@ (annotationUpstreams :> <<"d","b">>))
\* A prepared query without its port.
PodQ ==
    MkPod(<<"q">>, NsDefault, HostIP1, "10.0.0.12",
          StatusOnly @@ (annotationUpstreams :> <<"p","r","e","p","a","r","e","d","_","q","u","e","r","y",":","q">>))
\* A prepared query and a service upstream on the named port; no datacenter.
PodP ==
    MkPod(<<"p">>, NsDefault, HostIP1, "10.0.0.13",
          StatusOnly @@ (annotationUpstreams :> <<"p","r","e","p","a","r","e","d","_","q","u","e","r","y",":","q",":","9","1",","," ","d","b",":","h","t","t","p">>))
\* A datacenter entry followed by an entry of one part.
PodW ==
    MkPod(<<"w">>, NsDefault, HostIP1, "10.0.0.14",
          StatusOnly @@ (annotationUpstreams :> <<"d","b",":","9","0",":","d","c","2",",","c","a","c","h","e">>))
\* Blanks around the parts; the second entry's port is not positive.
PodY ==
    MkPod(<<"y">>, NsDefault, HostIP1, "10.0.0.15",
          StatusOnly @@ (annotationUpstreams :> <<" ","d","b"," ",":"," ","9","0"," ",":"," ","d","c","2"," ",",","w","e","b",":","0",":","d","c","1">>))

\* Injected pods of two other namespaces.
PodO ==
    MkPod(<<"o">>, NsOther, HostIP2, "10.0.1.1", StatusOnly)
PodS ==
    MkPod(<<"s">>, NamespaceSystem, HostIP1, "10.0.2.1", StatusOnly)

Pods ==
    {PodA, PodB, PodC, PodN, PodR, PodX, PodM, PodU, PodO, PodS, PodV, PodQ, PodP, PodW,
     PodY}

\* r.Client.Get of a pod: the empty sequence is the NotFound answer.
GetPod(name, namespace) ==
    IF \E q \in Pods : q.Name = name /\ q.Namespace = namespace
    THEN <<CHOOSE q \in Pods : q.Name = name /\ q.Namespace = namespace>>
    ELSE <<>>

\* The agent pods selected by component=client, app=consul, release=<ReleaseName>,
\* in the order the list call returns them, and the host each runs on.
AgentPods ==
    <<[Name |-> "consul-1", PodIP |-> "10.1.0.1", HostIP |-> HostIP1],
      [Name |-> "consul-2", PodIP |-> "10.1.0.2", HostIP |-> HostIP2]>>

Nodes ==
    1..Len(AgentPods)

\* The agent that answers at scheme://ip:port: an agent is reached through its
\* host's IP and through its own pod IP.  0 when nothing listens there.
AgentAt(ip) ==
    IF \E n \in Nodes : ip \in {AgentPods[n].PodIP, AgentPods[n].HostIP}
    THEN CHOOSE n \in Nodes : ip \in {AgentPods[n].PodIP, AgentPods[n].HostIP}
    ELSE 0

Key(name, namespace) ==
    [Name |-> name, Namespace |-> namespace]

Keys ==
    {Key(SvcWeb, NsDefault), Key(SvcApi, NsDefault), Key(SvcWeb, NsOther),
     Key(SvcWeb, NamespaceSystem)}

(***************************************************************************)
(* Endpoints objects.                                                      *)
(***************************************************************************)
PodAddr(pod) ==
    [IP |-> pod.PodIP,
     TargetRef |-> <<[Kind |-> KindPod, Name |-> pod.Name, Namespace |-> pod.Namespace]>>]
\* An address that targets a Node and one without a target; the latter carries
\* the IP of pod b.
NodeAddr ==
    [IP |-> "10.0.0.7", TargetRef |-> <<[Kind |-> KindNode, Name |-> <<"n","1">>, Namespace |-> <<>>]>>]
BareAddr ==
    [IP |-> "10.0.0.2", TargetRef |-> <<>>]
\* An address whose pod is gone.
GoneAddr ==
    [IP |-> "10.0.0.8",
     TargetRef |-> <<[Kind |-> KindPod, Name |-> <<"g">>, Namespace |-> NsDefault]>>]

Subset(ready, notReady) ==
    [Addresses |-> ready, NotReadyAddresses |-> notReady]

MkEndpoints(key, subsets) ==
    [Name |-> key.Name, Namespace |-> key.Namespace, Subsets |-> subsets]

\* Every order of the given pods, each split at every point into ready and
\* not-ready addresses of one subset.
Perms(S) ==
    {s \in [1..Cardinality(S) -> S] : \A i, j \in 1..Cardinality(S) : i # j => s[i] # s[j]}

SplitSubsets(S) ==
    {<<Subset([i \in 1..k |-> PodAddr(s[i])],
              [i \in 1..(Len(s) - k) |-> PodAddr(s[k + i])])>> :
        s \in Perms(S), k \in 0..Cardinality(S)}

OrderSubsets ==
    SplitSubsets({PodA, PodB, PodC}) \cup SplitSubsets({PodA, PodC})

MixedSubsets ==
    {<<>>,
     <<Subset(<<PodAddr(PodA), PodAddr(PodN)>>, <<>>)>>,
     <<Subset(<<PodAddr(PodA), BareAddr>>, <<NodeAddr>>)>>,
     <<Subset(<<PodAddr(PodX)>>, <<PodAddr(PodB)>>)>>,
     <<Subset(<<PodAddr(PodM)>>, <<>>), Subset(<<>>, <<PodAddr(PodA)>>)>>,
     <<Subset(<<PodAddr(PodA), PodAddr(PodU)>>, <<>>)>>,
     <<Subset(<<PodAddr(PodU)>>, <<PodAddr(PodB)>>)>>,
     <<Subset(<<PodAddr(PodA), GoneAddr>>, <<>>)>>,
     <<Subset(<<PodAddr(PodA), PodAddr(PodR)>>, <<>>)>>}

ApiSubsets ==
    {<<Subset(<<PodAddr(PodC)>>, <<>>)>>,
     <<Subset(<<PodAddr(PodA)>>, <<PodAddr(PodC)>>)>>,
     <<Subset(<<PodAddr(PodM)>>, <<>>)>>}

LiveWebSubsets ==
    {<<Subset(<<PodAddr(PodM)>>, <<>>)>>,
     <<Subset(<<PodAddr(PodA)>>, <<PodAddr(PodM)>>)>>}

LiveApiSubsets ==
    {<<Subset(<<PodAddr(PodA)>>, <<>>)>>,
     <<Subset(<<PodAddr(PodB)>>, <<>>)>>}

UpstreamSubsets ==
    {<<Subset(<<PodAddr(q)>>, <<>>)>> : q \in {PodU, PodV, PodQ, PodP, PodW, PodY}}

\* Pods a and b, and a alone once b has been removed.
OverlapSubsets ==
    {<<Subset(<<PodAddr(PodA), PodAddr(PodB)>>, <<>>)>>,
     <<Subset(<<PodAddr(PodA)>>, <<>>)>>}

SharedSubsets ==
    {<<Subset(<<PodAddr(PodC)>>, <<>>)>>}

(***************************************************************************)
(* Worlds.  A behaviour lives in one world, which fixes the values the     *)
(* endpoints objects can take, the controller's namespace sets and the     *)
(* proxy-defaults entry it may start with:                                 *)
(*   "order"   one service whose pods a, b, c are listed in every order,   *)
(*             ready or not, and then a and c only;                        *)
(*   "mixed"   two services; addresses without a pod, pods that are not    *)
(*             injected, gone, or whose registration cannot be built;      *)
(*   "skip"    one service in each of three namespaces under every         *)
(*             combination of allow and deny sets;                         *)
(*   "live"    two services, one of which lists pod m, driven by the work  *)
(*             queue;                                                      *)
(*   "upstreams" one service whose pod carries one of several upstream     *)
(*             annotations, under every state of the proxy-defaults entry; *)
(*   "conc"    two services that list the same pods, reconciled by passes  *)
(*             that overlap;                                               *)
(*   "overlap" one service that loses a pod, reconciled by passes for the  *)
(*             same key that overlap.                                      *)
(***************************************************************************)
Worlds ==
    {"order", "mixed", "skip"}

SubsetsOf(w, key) ==
    CASE w = "order" /\ key = Key(SvcWeb, NsDefault) -> OrderSubsets
      [] w = "mixed" /\ key = Key(SvcWeb, NsDefault) -> MixedSubsets
      [] w = "mixed" /\ key = Key(SvcApi, NsDefault) -> ApiSubsets
      [] w = "skip" /\ key = Key(SvcWeb, NsDefault) ->
             {<<Subset(<<PodAddr(PodA)>>, <<PodAddr(PodB)>>)>>}
      [] w = "skip" /\ key = Key(SvcWeb, NsOther) ->
             {<<Subset(<<PodAddr(PodO)>>, <<>>)>>}
      [] w = "skip" /\ key = Key(SvcWeb, NamespaceSystem) ->
             {<<Subset(<<PodAddr(PodS)>>, <<>>)>>}
      [] w = "live" /\ key = Key(SvcWeb, NsDefault) -> LiveWebSubsets
      [] w = "live" /\ key = Key(SvcApi, NsDefault) -> LiveApiSubsets
      [] w = "upstreams" /\ key = Key(SvcWeb, NsDefault) -> UpstreamSubsets
      [] w = "overlap" /\ key = Key(SvcWeb, NsDefault) -> OverlapSubsets
      [] w = "conc" /\ key \in {Key(SvcWeb, NsDefault), Key(SvcApi, NsDefault)} -> SharedSubsets
      [] OTHER -> {}

\* The values the endpoints object of a key can take; the empty sequence is
\* "no such object".
EndpointsChoices(w, key) ==
    {<<>>} \cup {<<MkEndpoints(key, ss)>> : ss \in SubsetsOf(w, key)}

\* allAddresses of every subset, in iteration order (lines 75-79).
RECURSIVE AllAddresses(_)
AllAddresses(subsets) ==
    IF subsets = <<>> THEN <<>>
    ELSE (Head(subsets).Addresses \o Head(subsets).NotReadyAddresses)
             \o AllAddresses(Tail(subsets))

(***************************************************************************)
(* Controller configuration and the proxy-defaults config entry.           *)
(***************************************************************************)
AllowAll ==
    [allow |-> {Wildcard}, deny |-> {}]

ConfigChoices(w) ==
    IF w = "skip"
    THEN {AllowAll,
          [allow |-> {Wildcard},                 deny |-> {NsOther}],
          [allow |-> {NsOther},                  deny |-> {}],
          [allow |-> {NsDefault, NsOther},       deny |-> {NsDefault}],
          [allow |-> {NamespaceSystem, NsOther}, deny |-> {}]}
    ELSE {AllowAll}

\* "absent": no global proxy-defaults entry; otherwise its mesh gateway mode.
ProxyDefaultsChoices(w) ==
    CASE w = "mixed" -> {"absent", "local", "none"}
      [] w = "upstreams" -> {"absent", MeshGatewayModeLocal, MeshGatewayModeRemote, "none", ""}
      [] OTHER -> {"local"}

(***************************************************************************)
(* Bounds.                                                                 *)
(***************************************************************************)
\* Reconcile calls that may be in flight at once.
MaxProcs ==
    2
\* Injected failures of orchestrator and agent calls.
MaxFailures ==
    1
\* Changes of endpoints objects.
MaxChanges ==
    2
\* Changes of the endpoints object while passes for its key overlap.
MaxOverlapChanges ==
    1

Procs ==
    1..MaxProcs

(***************************************************************************)
(* State.                                                                  *)
(***************************************************************************)
VARIABLES
    world,              \* the world the behaviour lives in
    config,             \* AllowK8sNamespacesSet / DenyK8sNamespacesSet of the controller
    proxyDefaults,      \* the global proxy-defaults config entry in Consul
    endpoints,          \* key -> <<>> or <<Endpoints object>>
    agents,             \* node -> (service ID -> registration) of the agent on that node
    pc,                 \* proc -> position of its Reconcile call
    req,                \* proc -> the request's key
    serviceEndpoints,   \* proc -> <<>> or <<the fetched object>>
    allAddresses,       \* proc -> addresses still to be iterated
    endpointAddressMap, \* proc -> <<>> (nil) or <<set of IPs>>
    registrations,      \* proc -> <<>> or <<pod, service, proxy>> being registered
    list,               \* proc -> agent pods still to be swept
    svcs,               \* proc -> IDs of the current agent's answer still to be deregistered
    result,             \* proc -> "", "ok", "err" or "panic"
    log,                \* proc -> the calls of the current pass, in order
    atSweep,            \* proc -> agents as they were when the sweep started
    lastPass,           \* <<>> or <<the pass that finished last>>, if it was successful
    failures,           \* failures still to be injected
    changes,            \* changes still to be made
    mode,               \* "seq": one pass at a time; "live": one pass at a time, taken
                        \* from the work queue; "conc": passes for different keys may
                        \* overlap; "overlap": any two passes may overlap
    queue,              \* keys whose pass is due: the object changed or the pass failed
    registeredBy,       \* node -> (service ID -> key of the pass that registered it)
    webhook,            \* the MeshWebhook: its configuration fields
    environ,            \* the environment of the webhook's process: name -> value
    podNamespace,       \* the namespace object of the pod under mutation
    injectedPod,        \* the pod under mutation
    multiPortInfos,     \* the multiPortInfo of each init container to build, in order
    initContainers      \* the results of the containerInit calls made so far, in order

vars ==
    <<world, config, proxyDefaults, endpoints, agents, pc, req, serviceEndpoints, allAddresses,
      endpointAddressMap, registrations, list, svcs, result, log, atSweep, lastPass,
      failures, changes, mode, queue, registeredBy, webhook, environ, podNamespace,
      injectedPod, multiPortInfos, initContainers>>

mutation ==
    <<webhook, environ, podNamespace, injectedPod, multiPortInfos>>

env ==
    <<world, config, proxyDefaults, mode, mutation, initContainers>>

locals ==
    <<serviceEndpoints, allAddresses, endpointAddressMap, registrations, list, svcs>>

Call(op, node, id, pod, res) ==
    [op |-> op, node |-> node, id |-> id, pod |-> pod, res |-> res]

Logged(p, c) ==
    log' = [log EXCEPT ![p] = Append(@, c)]

\* return ctrl.Result{}, err
Return(p, r) ==
    /\ pc' = [pc EXCEPT ![p] = "done"]
    /\ result' = [result EXCEPT ![p] = r]

\* The controller before its first pass, with the endpoints objects e that
\* exist and the failures and changes that the behaviour may still see.
InitControllerWith(f, c, e) ==
    /\ config \in ConfigChoices(world)
    /\ proxyDefaults \in ProxyDefaultsChoices(world)
    /\ endpoints = e
    /\ agents = [n \in Nodes |-> <<>>]
    /\ pc = [p \in Procs |-> "idle"]
    /\ req = [p \in Procs |-> Key(SvcWeb, NsDefault)]
    /\ serviceEndpoints = [p \in Procs |-> <<>>]
    /\ allAddresses = [p \in Procs |-> <<>>]
    /\ endpointAddressMap = [p \in Procs |-> <<>>]
    /\ registrations = [p \in Procs |-> <<>>]
    /\ list = [p \in Procs |-> <<>>]
    /\ svcs = [p \in Procs |-> {}]
    /\ result = [p \in Procs |-> ""]
    /\ log = [p \in Procs |-> <<>>]
    /\ atSweep = [p \in Procs |-> agents]
    /\ lastPass = <<>>
    /\ failures = f
    /\ changes = c
    /\ queue = {}
    /\ registeredBy = [n \in Nodes |-> <<>>]

InitController ==
    InitControllerWith(MaxFailures, MaxChanges, [k \in Keys |-> <<>>])

\* No pod is under mutation.
NoMutation ==
    /\ webhook = <<>>
    /\ environ = <<>>
    /\ podNamespace = <<>>
    /\ injectedPod = <<>>
    /\ multiPortInfos = <<>>
    /\ initContainers = <<>>

InitCommon ==
    /\ InitController
    /\ NoMutation

Init ==
    /\ world \in Worlds
    /\ mode = "seq"
    /\ InitCommon

(***************************************************************************)
(* The environment: an endpoints object is created, updated or deleted.    *)
(***************************************************************************)
\* A pass works on the object it fetched, so when passes do not overlap a
\* change during a pass is the same change right after it.
ChangeEndpoints(key, e) ==
    /\ changes > 0
    /\ mode \in {"seq", "live"} => \A q \in Procs : pc[q] = "idle"
    /\ e # endpoints[key]
    /\ endpoints' = [endpoints EXCEPT ![key] = e]
    /\ changes' = changes - 1
    /\ queue' = IF mode = "live" THEN queue \cup {key} ELSE queue
    /\ UNCHANGED <<env, agents, pc, req, locals, result, log, atSweep, lastPass, failures,
                   registeredBy>>

(***************************************************************************)
(* Reconcile(req), lines 45-68: the skip rule and the fetch.               *)
(***************************************************************************)
\* Variant: the sweep starts after the first address.
AfterAddress_sweepsEarly(rest) ==
    "listAgents"

\* Position after the address loop has consumed an address.
AfterAddress(rest) ==
    IF rest = <<>> THEN "listAgents" ELSE "address"

Reconcile(p, key) ==
    /\ pc[p] = "idle"
    /\ mode \in {"seq", "live"} => p = 1 /\ \A q \in Procs : pc[q] = "idle"
    /\ mode = "live" => key \in queue
    /\ mode = "conc" => \A q \in Procs : pc[q] = "idle" \/ req[q] # key
    /\ mode = "overlap" => EndpointsChoices(world, key) # {<<>>}
    /\ queue' = queue \ {key}
    /\ req' = [req EXCEPT ![p] = key]
    /\ atSweep' = [atSweep EXCEPT ![p] = agents]
    /\ registrations' = [registrations EXCEPT ![p] = <<>>]
    /\ list' = [list EXCEPT ![p] = <<>>]
    /\ svcs' = [svcs EXCEPT ![p] = {}]
    /\ IF shouldIgnore(key.Namespace, config.deny, config.allow)
       THEN /\ Return(p, "ok")
            /\ log' = [log EXCEPT ![p] = <<>>]
            /\ serviceEndpoints' = [serviceEndpoints EXCEPT ![p] = <<>>]
            /\ allAddresses' = [allAddresses EXCEPT ![p] = <<>>]
            /\ endpointAddressMap' = [endpointAddressMap EXCEPT ![p] = <<>>]
            /\ UNCHANGED failures
       ELSE \/ \* the fetch fails with an error other than NotFound
               /\ failures > 0
               /\ failures' = failures - 1
               /\ Return(p, "err")
               /\ log' = [log EXCEPT ![p] = <<Call("getEndpoints", 0, <<>>, <<>>, "err")>>]
               /\ serviceEndpoints' = [serviceEndpoints EXCEPT ![p] = <<>>]
               /\ allAddresses' = [allAddresses EXCEPT ![p] = <<>>]
               /\ endpointAddressMap' = [endpointAddressMap EXCEPT ![p] = <<>>]
            \/ \* IsNotFound: deregisterServiceOnAllAgents(req.Name, req.Namespace, nil)
               /\ endpoints[key] = <<>>
               /\ pc' = [pc EXCEPT ![p] = "listAgents"]
               /\ result' = [result EXCEPT ![p] = ""]
               /\ log' = [log EXCEPT ![p] = <<Call("getEndpoints", 0, <<>>, <<>>, "notfound")>>]
               /\ serviceEndpoints' = [serviceEndpoints EXCEPT ![p] = <<>>]
               /\ allAddresses' = [allAddresses EXCEPT ![p] = <<>>]
               /\ endpointAddressMap' = [endpointAddressMap EXCEPT ![p] = <<>>]
               /\ UNCHANGED failures
            \/ \* found
               /\ endpoints[key] # <<>>
               /\ pc' = [pc EXCEPT ![p] = AfterAddress(AllAddresses(endpoints[key][1].Subsets))]
               /\ result' = [result EXCEPT ![p] = ""]
               /\ log' = [log EXCEPT ![p] = <<Call("getEndpoints", 0, <<>>, <<>>, "ok")>>]
               /\ serviceEndpoints' = [serviceEndpoints EXCEPT ![p] = endpoints[key]]
               /\ allAddresses' = [allAddresses EXCEPT ![p] = AllAddresses(endpoints[key][1].Subsets)]
               /\ endpointAddressMap' = [endpointAddressMap EXCEPT ![p] = <<{}>>]
               /\ UNCHANGED failures
    /\ UNCHANGED <<env, endpoints, agents, lastPass, changes, registeredBy>>

(***************************************************************************)
(* Lines 79-104: one address of the loop, up to the built registrations.   *)
(***************************************************************************)
\* The answers of the proxy-defaults lookups of one builder call: the entry as
\* it is, or (netFails) a network failure on every lookup.
LookupAnswers(pod, netFails) ==
    [i \in 1..Len(UpstreamEntries(pod)) |->
        IF netFails THEN [kind |-> "neterr", mode |-> ""]
        ELSE IF proxyDefaults = "absent" THEN [kind |-> "notfound", mode |-> ""]
        ELSE [kind |-> "ok", mode |-> proxyDefaults]]

\* The builder makes a lookup for this pod.
NamesDatacenter(parts) ==
    TrimSpace(parts[1]) # PreparedQueryToken /\ Len(parts) > 2

\* Lines 322-326: indexing the parts of this entry panics.
TooFewParts(parts) ==
    IF TrimSpace(parts[1]) = PreparedQueryToken THEN Len(parts) < 3 ELSE Len(parts) < 2

\* The loop reaches an entry that names a datacenter.
MakesLookup(pod) ==
    \E i \in 1..Len(UpstreamEntries(pod)) :
        /\ NamesDatacenter(SplitN(UpstreamEntries(pod)[i], ":", 3))
        /\ \A j \in 1..(i - 1) : ~TooFewParts(SplitN(UpstreamEntries(pod)[j], ":", 3))

\* The proxy-defaults lookup of a builder call, as it enters the log.
LookupCalls(pod, answers) ==
    IF MakesLookup(pod)
    THEN <<Call("lookup", 0, <<>>, pod.Name, answers[1].kind)>>
    ELSE <<>>

\* Variant: the error is logged and the pass goes on.
Abort_goesOn(p, c, r) ==
    /\ Logged(p, c)
    /\ UNCHANGED <<pc, result>>

Abort(p, c, r) ==
    /\ Return(p, r)
    /\ Logged(p, c)

\* Lines 100-104: what the pass does with the builder's result b for pod.
Built(p, pod, b, lookups) ==
    /\ log' = [log EXCEPT ![p] = (@ \o <<Call("getPod", 0, <<>>, pod.Name, "ok")>>)
                                     \o lookups
                                     \o <<Call("build", 0, <<>>, pod.Name, b.res)>>]
    /\ IF b.res = "ok"
       THEN /\ registrations' = [registrations EXCEPT ![p] = <<pod, b.service[1], b.proxy[1]>>]
            /\ pc' = [pc EXCEPT ![p] = "registerService"]
            /\ UNCHANGED <<allAddresses, result>>
       ELSE /\ Return(p, b.res)
            /\ UNCHANGED <<allAddresses, registrations>>

\* Lines 84-104: the pod of a Pod address with IP ip and target ref; found is
\* the answer of the pod lookup.
ProcessPod(p, ref, found, rest) ==
    \/ \* the pod lookup fails
       /\ \/ found = <<>> /\ UNCHANGED failures
          \/ failures > 0 /\ failures' = failures - 1
       /\ Abort(p, Call("getPod", 0, <<>>, ref.Name, "err"), "err")
       /\ UNCHANGED <<allAddresses, registrations>>
    \/ \* the pod has not been injected
       /\ found # <<>> /\ ~hasBeenInjected(found[1])
       /\ allAddresses' = [allAddresses EXCEPT ![p] = rest]
       /\ pc' = [pc EXCEPT ![p] = AfterAddress(rest)]
       /\ Logged(p, Call("getPod", 0, <<>>, ref.Name, "ok"))
       /\ UNCHANGED <<registrations, result, failures>>
    \/ \* getConsulClient fails
       /\ found # <<>> /\ hasBeenInjected(found[1])
       /\ failures > 0 /\ failures' = failures - 1
       /\ Return(p, "err")
       /\ log' = [log EXCEPT ![p] = @ \o <<Call("getPod", 0, <<>>, ref.Name, "ok"),
                                          Call("newClient", 0, <<>>, ref.Name, "err")>>]
       /\ UNCHANGED <<allAddresses, registrations>>
    \/ \* createServiceRegistrations
       /\ found # <<>> /\ hasBeenInjected(found[1])
       /\ \E netFails \in BOOLEAN :
            /\ netFails => MakesLookup(found[1]) /\ failures > 0
            /\ failures' = IF netFails THEN failures - 1 ELSE failures
            /\ Built(p, found[1],
                     createServiceRegistrations(found[1], serviceEndpoints[p][1],
                                                LookupAnswers(found[1], netFails)),
                     LookupCalls(found[1], LookupAnswers(found[1], netFails)))

\* Variant: the map is keyed by the address's Hostname, which pod addresses leave empty.
MapKey_hostname(address) ==
    ""

\* Line 82: the key under which an address enters endpointAddressMap.
MapKey(address) ==
    address.IP

ProcessAddressOf(p, address, rest) ==
    IF address.TargetRef = <<>> \/ address.TargetRef[1].Kind # KindPod
    THEN /\ allAddresses' = [allAddresses EXCEPT ![p] = rest]
         /\ pc' = [pc EXCEPT ![p] = AfterAddress(rest)]
         /\ UNCHANGED <<endpointAddressMap, registrations, result, log, failures>>
    ELSE /\ endpointAddressMap' = [endpointAddressMap EXCEPT ![p] = <<@[1] \cup {MapKey(address)}>>]
         /\ ProcessPod(p, address.TargetRef[1],
                       GetPod(address.TargetRef[1].Name, address.TargetRef[1].Namespace),
                       rest)

ProcessAddress(p) ==
    /\ pc[p] = "address"
    /\ ProcessAddressOf(p, Head(allAddresses[p]), Tail(allAddresses[p]))
    /\ UNCHANGED <<env, endpoints, agents, req, serviceEndpoints, list, svcs, atSweep,
                   lastPass, changes, queue, registeredBy>>

(***************************************************************************)
(* The agent API.                                                          *)
(***************************************************************************)
\* Agent().ServiceRegister: the registration replaces what the ID held.
ServiceRegister(store, reg) ==
    MapSet(store, reg.ID, reg)

\* Agent().ServiceDeregister
ServiceDeregister(store, id) ==
    [x \in (DOMAIN store) \ {id} |-> store[x]]

\* Variant: the filter compares the service name only.
MatchesFilter_nameOnly(reg, k8sSvcName, k8sSvcNamespace) ==
    /\ MetaKeyKubeServiceName \in DOMAIN reg.Meta
    /\ reg.Meta[MetaKeyKubeServiceName] = k8sSvcName

\* The instances the filter of line 283 selects:
\* Meta["k8s-service-name"] == k8sSvcName and Meta["k8s-namespace"] == k8sSvcNamespace
MatchesFilter(reg, k8sSvcName, k8sSvcNamespace) ==
    /\ Has(reg.Meta, MetaKeyKubeServiceName)
    /\ reg.Meta[MetaKeyKubeServiceName] = k8sSvcName
    /\ Has(reg.Meta, MetaKeyKubeNS)
    /\ reg.Meta[MetaKeyKubeNS] = k8sSvcNamespace

ServicesWithFilter(store, k8sSvcName, k8sSvcNamespace) ==
    {id \in DOMAIN store : MatchesFilter(store[id], k8sSvcName, k8sSvcNamespace)}

\* Variant: the map is not consulted.
ShouldDeregister_ignoresMap(reg, endpointsAddressesMap) ==
    TRUE

\* Lines 293-306: the instance is deregistered when the map is nil or lacks its address.
ShouldDeregister(reg, endpointsAddressesMap) ==
    IF endpointsAddressesMap # <<>>
    THEN reg.Address \notin endpointsAddressesMap[1]
    ELSE TRUE

(***************************************************************************)
(* Lines 106-120: the two register calls of an address.                    *)
(***************************************************************************)
RegisterService(p) ==
    /\ pc[p] = "registerService"
    /\ LET pod  == registrations[p][1]
           reg  == registrations[p][2]
           node == AgentAt(pod.HostIP)
       IN  \/ /\ node # 0
              /\ agents' = [agents EXCEPT ![node] = ServiceRegister(@, reg)]
              /\ registeredBy' = [registeredBy EXCEPT ![node] = MapSet(@, reg.ID, req[p])]
              /\ pc' = [pc EXCEPT ![p] = "registerProxy"]
              /\ Logged(p, Call("register", node, reg.ID, pod.Name, "ok"))
              /\ UNCHANGED <<result, failures>>
           \/ /\ \/ node = 0 /\ UNCHANGED failures
                 \/ failures > 0 /\ failures' = failures - 1
              /\ Abort(p, Call("register", node, reg.ID, pod.Name, "err"), "err")
              /\ UNCHANGED <<agents, registeredBy>>
    /\ UNCHANGED <<env, endpoints, req, locals, atSweep, lastPass, changes, queue>>

RegisterProxy(p) ==
    /\ pc[p] = "registerProxy"
    /\ LET pod  == registrations[p][1]
           reg  == registrations[p][3]
           node == AgentAt(pod.HostIP)
           rest == Tail(allAddresses[p])
       IN  \/ /\ node # 0
              /\ agents' = [agents EXCEPT ![node] = ServiceRegister(@, reg)]
              /\ registeredBy' = [registeredBy EXCEPT ![node] = MapSet(@, reg.ID, req[p])]
              /\ allAddresses' = [allAddresses EXCEPT ![p] = rest]
              /\ registrations' = [registrations EXCEPT ![p] = <<>>]
              /\ pc' = [pc EXCEPT ![p] = AfterAddress(rest)]
              /\ Logged(p, Call("register", node, reg.ID, pod.Name, "ok"))
              /\ UNCHANGED <<result, failures>>
           \/ /\ \/ node = 0 /\ UNCHANGED failures
                 \/ failures > 0 /\ failures' = failures - 1
              /\ Abort(p, Call("register", node, reg.ID, pod.Name, "err"), "err")
              /\ UNCHANGED <<agents, registeredBy, allAddresses, registrations>>
    /\ UNCHANGED <<env, endpoints, req, serviceEndpoints, endpointAddressMap, list, svcs,
                   atSweep, lastPass, changes, queue>>

(***************************************************************************)
(* deregisterServiceOnAllAgents, lines 256-310.                            *)
(***************************************************************************)
\* Position once the answer of the current agent holds nothing more to
\* deregister: the next agent of the list, or the end of the pass.
AfterAgent(p, rest) ==
    IF rest = <<>>
    THEN /\ Return(p, "ok")
         /\ list' = [list EXCEPT ![p] = <<>>]
    ELSE /\ pc' = [pc EXCEPT ![p] = "listServices"]
         /\ list' = [list EXCEPT ![p] = rest]
         /\ UNCHANGED result

\* Lines 259-271: the agent pods.
ListAgents(p) ==
    /\ pc[p] = "listAgents"
    /\ atSweep' = [atSweep EXCEPT ![p] = agents]
    /\ \/ /\ Logged(p, Call("listAgents", 0, <<>>, <<>>, "ok"))
          /\ AfterAgent(p, AgentPods)
          /\ UNCHANGED failures
       \/ /\ failures > 0 /\ failures' = failures - 1
          /\ Abort(p, Call("listAgents", 0, <<>>, <<>>, "err"), "err")
          /\ UNCHANGED list
    /\ UNCHANGED <<env, endpoints, agents, req, serviceEndpoints, allAddresses,
                   endpointAddressMap, registrations, svcs, lastPass, changes, queue,
                   registeredBy>>

\* Lines 274-287: the client of the next agent and its instances that match
\* the metadata; of these, the ones the loop of line 290 will deregister.
ListServices(p) ==
    /\ pc[p] = "listServices"
    /\ LET node == AgentAt(Head(list[p]).PodIP)
           todo == {id \in ServicesWithFilter(agents[node], req[p].Name, req[p].Namespace) :
                       ShouldDeregister(agents[node][id], endpointAddressMap[p])}
       IN  \/ /\ node # 0
              /\ Logged(p, Call("services", node, <<>>, <<>>, "ok"))
              /\ svcs' = [svcs EXCEPT ![p] = todo]
              /\ IF todo = {}
                 THEN AfterAgent(p, Tail(list[p]))
                 ELSE /\ pc' = [pc EXCEPT ![p] = "deregister"]
                      /\ UNCHANGED <<list, result>>
              /\ UNCHANGED failures
           \/ /\ \/ node = 0 /\ UNCHANGED failures
                 \/ failures > 0 /\ failures' = failures - 1
              /\ Abort(p, Call("services", node, <<>>, <<>>, "err"), "err")
              /\ UNCHANGED <<list, svcs>>
    /\ UNCHANGED <<env, endpoints, agents, req, serviceEndpoints, allAddresses,
                   endpointAddressMap, registrations, atSweep, lastPass, changes, queue,
                   registeredBy>>

\* Lines 290-307: one deregister call; the map of instances is ranged over in
\* any order.  The agent rejects an ID it does not hold.
Deregister(p) ==
    /\ pc[p] = "deregister"
    /\ LET node == AgentAt(Head(list[p]).PodIP)
       IN  \E svcID \in svcs[p] :
             \/ /\ svcID \in DOMAIN agents[node]
                /\ agents' = [agents EXCEPT ![node] = ServiceDeregister(@, svcID)]
                /\ registeredBy' = [registeredBy EXCEPT ![node] = ServiceDeregister(@, svcID)]
                /\ Logged(p, Call("deregister", node, svcID, <<>>, "ok"))
                /\ svcs' = [svcs EXCEPT ![p] = @ \ {svcID}]
                /\ IF svcs[p] = {svcID}
                   THEN AfterAgent(p, Tail(list[p]))
                   ELSE UNCHANGED <<pc, list, result>>
                /\ UNCHANGED failures
             \/ /\ \/ svcID \notin DOMAIN agents[node] /\ UNCHANGED failures
                   \/ failures > 0 /\ failures' = failures - 1
                /\ Abort(p, Call("deregister", node, svcID, <<>>, "err"), "err")
                /\ UNCHANGED <<agents, registeredBy, list, svcs>>
    /\ UNCHANGED <<env, endpoints, req, serviceEndpoints, allAddresses, endpointAddressMap,
                   registrations, atSweep, lastPass, changes, queue>>

\* The call has returned; the controller is free to take the next request.
Finish(p) ==
    /\ pc[p] = "done"
    /\ pc' = [pc EXCEPT ![p] = "idle"]
    /\ lastPass' = IF result[p] = "ok" /\ log[p] # <<>>
                   THEN <<[key |-> req[p], serviceEndpoints |-> serviceEndpoints[p],
                           agents |-> agents]>>
                   ELSE <<>>
    /\ queue' = IF mode = "live" /\ result[p] = "err" THEN queue \cup {req[p]} ELSE queue
    /\ UNCHANGED <<env, endpoints, agents, req, locals, result, log, atSweep, failures, changes,
                   registeredBy>>

Next ==
    \/ \E key \in Keys : \E e \in EndpointsChoices(world, key) : ChangeEndpoints(key, e)
    \/ \E p \in Procs : \E key \in Keys : Reconcile(p, key)
    \/ \E p \in Procs : ProcessAddress(p)
    \/ \E p \in Procs : RegisterService(p)
    \/ \E p \in Procs : RegisterProxy(p)
    \/ \E p \in Procs : ListAgents(p)
    \/ \E p \in Procs : ListServices(p)
    \/ \E p \in Procs : Deregister(p)
    \/ \E p \in Procs : Finish(p)

Spec ==
    Init /\ [][Next]_vars

(***************************************************************************)
(* One service whose pods carry upstream annotations.                      *)
(***************************************************************************)
InitUpstreams ==
    /\ world = "upstreams"
    /\ mode = "seq"
    /\ InitCommon

SpecUpstreams ==
    InitUpstreams /\ [][Next]_vars

(***************************************************************************)
(* Passes that overlap: MaxProcs workers, never two on the same key.       *)
(***************************************************************************)
InitConc ==
    /\ world = "conc"
    /\ mode = "conc"
    /\ InitCommon

SpecConc ==
    InitConc /\ [][Next]_vars

(***************************************************************************)
(* Reconcile called without mutual exclusion: passes for the same key may  *)
(* overlap, and the endpoints object may change while a pass is running.   *)
(***************************************************************************)
\* The object lists pods a and b when the controller starts; no call fails
\* in this world.
InitOverlap ==
    /\ world = "overlap"
    /\ mode = "overlap"
    /\ InitControllerWith(0, MaxOverlapChanges,
                          [k \in Keys |->
                              IF k = Key(SvcWeb, NsDefault)
                              THEN <<MkEndpoints(k, <<Subset(<<PodAddr(PodA), PodAddr(PodB)>>,
                                                             <<>>)>>)>>
                              ELSE <<>>])
    /\ NoMutation

SpecOverlap ==
    InitOverlap /\ [][Next]_vars

(***************************************************************************)
(* The controller behind its work queue: a change of an endpoints object   *)
(* and a failed pass put the key on the queue, and a key on the queue is   *)
(* eventually reconciled; a pass that has started runs to its return.      *)
(***************************************************************************)
InitLive ==
    /\ world = "live"
    /\ mode = "live"
    /\ InitCommon

\* A step of the pass of worker p after its start.
Step(p) ==
    \/ ProcessAddress(p)
    \/ RegisterService(p)
    \/ RegisterProxy(p)
    \/ ListAgents(p)
    \/ ListServices(p)
    \/ Deregister(p)
    \/ Finish(p)

SpecLive ==
    /\ InitLive
    /\ [][Next]_vars
    /\ \A p \in Procs : WF_vars(Step(p))
    /\ \A key \in Keys : WF_vars(\E p \in Procs : Reconcile(p, key))

(***************************************************************************)
(* control-plane/connect-inject/container_init.go: the init container the  *)
(* mesh webhook adds to a pod.  Annotation keys, resource prefixes and     *)
(* the values split by strings.Split are sequences of characters, every    *)
(* other string is a TLA+ string, so that the template's substitutions     *)
(* are concatenations.                                                      *)
(***************************************************************************)
InjectInitContainerName ==
    "consul-connect-inject-init"
rootUserAndGroupID ==
    0
envoyUserAndGroupID ==
    5995
initContainersUserAndGroupID ==
    5996
netAdminCapability ==
    "NET_ADMIN"

\* m[k] of a Go map of strings: the zero value when the key is missing.
Lookup(m, k) ==
    IF Has(m, k) THEN m[k] ELSE ""

\* strings.ToUpper, one character
ToUpperChar(c) ==
    IF \E i \in 1..Len(LowerCase) : LowerCase[i] = c
    THEN UpperCase[CHOOSE i \in 1..Len(LowerCase) : LowerCase[i] = c]
    ELSE c

ToUpper(s) ==
    [i \in 1..Len(s) |-> ToUpperChar(s[i])]

\* strings.ReplaceAll(s, old, new) for one-character old and new
ReplaceAll(s, old, new) ==
    [i \in 1..Len(s) |-> IF s[i] = old THEN new ELSE s[i]]

\* Variant: the hyphens of the resource prefix are kept.
constructDNSServiceHostName_keepsHyphens(w) ==
    ToUpper(w.ResourcePrefix) \o <<"_">> \o dnsServiceHostEnvSuffix

\* Lines 335-339
constructDNSServiceHostName(w) ==
    ReplaceAll(ToUpper(w.ResourcePrefix), "-", "_") \o <<"_">> \o dnsServiceHostEnvSuffix

\* os.Getenv
Getenv(name) ==
    Lookup(environ, name)

\* Variant: every value that is not known to be true is false.
ParseBool_lenient(str) ==
    CASE str \in {"1", "t", "T", "TRUE", "true", "True"} -> [val |-> TRUE, err |-> ""]
      [] OTHER -> [val |-> FALSE, err |-> ""]

\* strconv.ParseBool: the value and the error, "" for nil.
ParseBool(str) ==
    CASE str \in {"1", "t", "T", "TRUE", "true", "True"} -> [val |-> TRUE, err |-> ""]
      [] str \in {"0", "f", "F", "FALSE", "false", "False"} -> [val |-> FALSE, err |-> ""]
      [] OTHER -> [val |-> FALSE,
                   err |-> "strconv.ParseBool: parsing \"" \o str \o "\": invalid syntax"]

\* Variant: the pod annotation is looked at after the namespace label.
transparentProxyEnabled_labelFirst(namespace, pod, globalEnabled) ==
    IF Has(namespace.Labels, keyTransparentProxy)
    THEN ParseBool(namespace.Labels[keyTransparentProxy])
    ELSE IF Has(pod.Annotations, keyTransparentProxy)
         THEN ParseBool(pod.Annotations[keyTransparentProxy])
         ELSE [val |-> globalEnabled, err |-> ""]

\* Lines 344-355
transparentProxyEnabled(namespace, pod, globalEnabled) ==
    IF Has(pod.Annotations, keyTransparentProxy)
    THEN ParseBool(pod.Annotations[keyTransparentProxy])
    ELSE IF Has(namespace.Labels, keyTransparentProxy)
         THEN ParseBool(namespace.Labels[keyTransparentProxy])
         ELSE [val |-> globalEnabled, err |-> ""]

\* Lines 360-371
consulDNSEnabled(namespace, pod, globalEnabled) ==
    IF Has(pod.Annotations, keyConsulDNS)
    THEN ParseBool(pod.Annotations[keyConsulDNS])
    ELSE IF Has(namespace.Labels, keyConsulDNS)
         THEN ParseBool(namespace.Labels[keyConsulDNS])
         ELSE [val |-> globalEnabled, err |-> ""]

\* Lines 375-382: nil when the annotation is missing
splitCommaSeparatedItemsFromAnnotation(annotation, pod) ==
    IF Has(pod.Annotations, annotation)
    THEN Split(pod.Annotations[annotation], ",")
    ELSE <<>>

\* MeshWebhook.consulNamespace: the namespace of the mesh a pod of the
\* orchestrator namespace ns is registered in, "" when namespaces are off.
consulNamespace(w, ns) ==
    IF ~w.EnableNamespaces
    THEN ""
    ELSE IF w.EnableK8SNSMirroring
         THEN w.K8SNSMirroringPrefix \o ns
         ELSE w.ConsulDestinationNamespace

\* The mount of the service account token and the file of the token.
ServiceAccountMountPath ==
    "/var/run/secrets/kubernetes.io/serviceaccount"

RECURSIVE MountsOf(_)
MountsOf(containers) ==
    IF containers = <<>>
    THEN <<>>
    ELSE Head(containers).VolumeMounts \o MountsOf(Tail(containers))

RECURSIVE FirstAt(_, _)
FirstAt(mounts, path) ==
    IF mounts = <<>>
    THEN <<>>
    ELSE IF Head(mounts).MountPath = path THEN <<Head(mounts)>> ELSE FirstAt(Tail(mounts), path)

\* findServiceAccountVolumeMount: in multiport mode the volume named
\* <service>-service-account when the pod has one; else the first mount of a
\* container at the service account path; an error when there is none.
findServiceAccountVolumeMount(pod, multiPort, multiPortSvcName) ==
    IF multiPort /\ \E i \in 1..Len(pod.Volumes) : pod.Volumes[i] = multiPortSvcName \o "-service-account"
    THEN [mount |-> [Name |-> multiPortSvcName \o "-service-account",
                     MountPath |-> "/consul/serviceaccount-" \o multiPortSvcName],
          file |-> "/consul/serviceaccount-" \o multiPortSvcName \o "/token",
          err |-> ""]
    ELSE IF FirstAt(MountsOf(pod.Containers), ServiceAccountMountPath) = <<>>
         THEN [mount |-> <<>>, file |-> "",
               err |-> "unable to find service account token volumeMount"]
         ELSE [mount |-> FirstAt(MountsOf(pod.Containers), ServiceAccountMountPath)[1],
               file |-> ServiceAccountMountPath \o "/token",
               err |-> ""]

\* The shared volume of the init containers and the sidecar.
volumeName ==
    "consul-connect-inject-data"

\* Lines 229-240: an annotation that is present and not empty
NonEmptyAnnotation(pod, annotation) ==
    IF Has(pod.Annotations, annotation) /\ pod.Annotations[annotation] # ""
    THEN pod.Annotations[annotation]
    ELSE ""

\* Lines 161-240: the data of the template, when no step has failed.  The
\* metrics configuration answers for the pod in w.MetricsConfig: run is the
\* answer of shouldRunMergedMetricsServer, path of prometheusScrapePath, port
\* of mergedMetricsPort.
initContainerCommandData(w, namespace, pod, mpi) ==
    [ServiceName |->
         IF mpi.serviceName # "" THEN mpi.serviceName ELSE Lookup(pod.Annotations, annotationService),
     ServiceAccountName |->
         IF w.AuthMethod = ""
         THEN ""
         ELSE IF mpi.serviceName # "" THEN mpi.serviceName ELSE pod.ServiceAccountName,
     AuthMethod |-> w.AuthMethod,
     ConsulPartition |-> w.ConsulPartition,
     ConsulNamespace |-> consulNamespace(w, namespace.Name),
     NamespaceMirroringEnabled |-> w.EnableK8SNSMirroring,
     ConsulCACert |-> w.ConsulCACert,
     PrometheusScrapePath |-> IF w.MetricsConfig.run.val THEN w.MetricsConfig.path ELSE "",
     PrometheusBackendPort |-> IF w.MetricsConfig.run.val THEN w.MetricsConfig.port.val ELSE "",
     PrometheusCAFile |-> NonEmptyAnnotation(pod, annotationPrometheusCAFile),
     PrometheusCAPath |-> NonEmptyAnnotation(pod, annotationPrometheusCAPath),
     PrometheusCertFile |-> NonEmptyAnnotation(pod, annotationPrometheusCertFile),
     PrometheusKeyFile |-> NonEmptyAnnotation(pod, annotationPrometheusKeyFile),
     EnableTransparentProxy |->
         transparentProxyEnabled(namespace, pod, w.EnableTransparentProxy).val,
     EnableCNI |-> w.EnableCNI,
     TProxyExcludeInboundPorts |->
         splitCommaSeparatedItemsFromAnnotation(annotationTProxyExcludeInboundPorts, pod),
     TProxyExcludeOutboundPorts |->
         splitCommaSeparatedItemsFromAnnotation(annotationTProxyExcludeOutboundPorts, pod),
     TProxyExcludeOutboundCIDRs |->
         splitCommaSeparatedItemsFromAnnotation(annotationTProxyExcludeOutboundCIDRs, pod),
     TProxyExcludeUIDs |->
         splitCommaSeparatedItemsFromAnnotation(annotationTProxyExcludeUIDs, pod),
     ConsulDNSClusterIP |->
         IF consulDNSEnabled(namespace, pod, w.EnableConsulDNS).val
         THEN Getenv(constructDNSServiceHostName(w))
         ELSE "",
     EnvoyUID |-> envoyUserAndGroupID,
     MultiPort |-> mpi.serviceName # "",
     EnvoyAdminPort |-> 19000 + mpi.serviceIndex,
     BearerTokenFile |->
         IF w.AuthMethod = ""
         THEN ""
         ELSE findServiceAccountVolumeMount(pod, mpi.serviceName # "", mpi.serviceName).file,
     ConsulAPITimeout |-> w.ConsulAPITimeout]

\* Variant: the certificate is asked for before the CA.
PrometheusTLSError_certFirst(data) ==
    IF data.PrometheusCertFile # "" \/ data.PrometheusKeyFile # ""
           \/ data.PrometheusCAFile # "" \/ data.PrometheusCAPath # ""
    THEN IF data.PrometheusCertFile = ""
         THEN "Must set prometheus-cert-file when providing prometheus TLS config"
         ELSE IF data.PrometheusCAFile = "" /\ data.PrometheusCAPath = ""
              THEN "Must set one of prometheus-ca-file or prometheus-ca-path when providing prometheus TLS config"
              ELSE IF data.PrometheusKeyFile = ""
                   THEN "Must set prometheus-key-file when providing prometheus TLS config"
                   ELSE ""
    ELSE ""

\* Lines 243-253: the error of the validation, "" for none.
PrometheusTLSError(data) ==
    IF data.PrometheusCertFile # "" \/ data.PrometheusKeyFile # ""
           \/ data.PrometheusCAFile # "" \/ data.PrometheusCAPath # ""
    THEN IF data.PrometheusCAFile = "" /\ data.PrometheusCAPath = ""
         THEN "Must set one of prometheus-ca-file or prometheus-ca-path when providing prometheus TLS config"
         ELSE IF data.PrometheusCertFile = ""
              THEN "Must set prometheus-cert-file when providing prometheus TLS config"
              ELSE IF data.PrometheusKeyFile = ""
                   THEN "Must set prometheus-key-file when providing prometheus TLS config"
                   ELSE ""
    ELSE ""

(***************************************************************************)
(* Lines 386-511: the template.  The rendered command is the sequence of   *)
(* its lines, each line the step it belongs to, the flag (or exported      *)
(* name) and the argument the template puts after it; cat tells that the   *)
(* line reads the argument as a file, "$(cat <file>)".                     *)
(***************************************************************************)
Arg(step, flag, arg) ==
    [step |-> step, flag |-> flag, arg |-> arg, cat |-> FALSE]

Cat(step, flag, file) ==
    [step |-> step, flag |-> flag, arg |-> file, cat |-> TRUE]

\* {{- if cond }} lines {{- end }}
When(cond, lines) ==
    IF cond THEN lines ELSE <<>>

\* {{- range items }} flag="{{ . }}" {{- end }}
Each(step, flag, items) ==
    [i \in 1..Len(items) |-> Arg(step, flag, items[i])]

\* Lines 387-397
Exports(data) ==
    IF data.ConsulCACert # ""
    THEN <<Arg("export", "CONSUL_HTTP_ADDR", "https://${HOST_IP}:8501"),
           Arg("export", "CONSUL_GRPC_ADDR", "https://${HOST_IP}:8502"),
           Arg("export", "CONSUL_CACERT", "/consul/connect-inject/consul-ca.pem"),
           Arg("export", "cat <<EOF >/consul/connect-inject/consul-ca.pem", data.ConsulCACert)>>
    ELSE <<Arg("export", "CONSUL_HTTP_ADDR", "${HOST_IP}:8500"),
           Arg("export", "CONSUL_GRPC_ADDR", "${HOST_IP}:8502")>>

\* Variant: the auth method is looked up in the resolved namespace under
\* mirroring too.
AuthFlags_mirrored(data) ==
    <<Arg("connect-init", "-acl-auth-method", data.AuthMethod),
      Arg("connect-init", "-service-account-name", data.ServiceAccountName),
      Arg("connect-init", "-service-name", data.ServiceName),
      Arg("connect-init", "-bearer-token-file", data.BearerTokenFile)>>
    \o When(data.MultiPort,
            <<Arg("connect-init", "-acl-token-sink",
                  "/consul/connect-inject/acl-token-" \o data.ServiceName)>>)
    \o When(data.ConsulNamespace # "",
            <<Arg("connect-init", "-auth-method-namespace", data.ConsulNamespace)>>)

\* Lines 400-417: the flags of the auth method
AuthFlags(data) ==
    <<Arg("connect-init", "-acl-auth-method", data.AuthMethod),
      Arg("connect-init", "-service-account-name", data.ServiceAccountName),
      Arg("connect-init", "-service-name", data.ServiceName),
      Arg("connect-init", "-bearer-token-file", data.BearerTokenFile)>>
    \o When(data.MultiPort,
            <<Arg("connect-init", "-acl-token-sink",
                  "/consul/connect-inject/acl-token-" \o data.ServiceName)>>)
    \o When(data.ConsulNamespace # "",
            IF data.NamespaceMirroringEnabled
            THEN <<Arg("connect-init", "-auth-method-namespace", "default")>>
            ELSE <<Arg("connect-init", "-auth-method-namespace", data.ConsulNamespace)>>)

\* Lines 398-430
ConnectInit(data) ==
    <<Arg("connect-init", "-pod-name", "${POD_NAME}"),
      Arg("connect-init", "-pod-namespace", "${POD_NAMESPACE}"),
      Arg("connect-init", "-consul-api-timeout", data.ConsulAPITimeout)>>
    \o When(data.AuthMethod # "", AuthFlags(data))
    \o When(data.MultiPort,
            <<Arg("connect-init", "-multiport", "true"),
              Arg("connect-init", "-proxy-id-file",
                  "/consul/connect-inject/proxyid-" \o data.ServiceName)>>
            \o When(data.AuthMethod = "",
                    <<Arg("connect-init", "-service-name", data.ServiceName)>>))
    \o When(data.ConsulPartition # "",
            <<Arg("connect-init", "-partition", data.ConsulPartition)>>)
    \o When(data.ConsulNamespace # "",
            <<Arg("connect-init", "-consul-service-namespace", data.ConsulNamespace)>>)

\* Variant: the admin port 19000 is bound in every plan.
AdminBind_always(data) ==
    <<Arg("envoy", "-admin-bind", "127.0.0.1:" \o ToString(19000))>>

\* Lines 470-472
AdminBind(data) ==
    When(data.MultiPort,
         <<Arg("envoy", "-admin-bind", "127.0.0.1:" \o ToString(data.EnvoyAdminPort))>>)

\* Lines 432-473
Envoy(data) ==
    <<IF data.MultiPort
      THEN Cat("envoy", "-proxy-id", "/consul/connect-inject/proxyid-" \o data.ServiceName)
      ELSE Cat("envoy", "-proxy-id", "/consul/connect-inject/proxyid")>>
    \o When(data.PrometheusScrapePath # "",
            <<Arg("envoy", "-prometheus-scrape-path", data.PrometheusScrapePath)>>)
    \o When(data.PrometheusBackendPort # "",
            <<Arg("envoy", "-prometheus-backend-port", data.PrometheusBackendPort)>>)
    \o When(data.PrometheusCAFile # "",
            <<Arg("envoy", "-prometheus-ca-file", data.PrometheusCAFile)>>)
    \o When(data.PrometheusCAPath # "",
            <<Arg("envoy", "-prometheus-ca-path", data.PrometheusCAPath)>>)
    \o When(data.PrometheusCertFile # "",
            <<Arg("envoy", "-prometheus-cert-file", data.PrometheusCertFile)>>)
    \o When(data.PrometheusKeyFile # "",
            <<Arg("envoy", "-prometheus-key-file", data.PrometheusKeyFile)>>)
    \o When(data.AuthMethod # "",
            IF data.MultiPort
            THEN <<Arg("envoy", "-token-file",
                       "/consul/connect-inject/acl-token-" \o data.ServiceName)>>
            ELSE <<Arg("envoy", "-token-file", "/consul/connect-inject/acl-token")>>)
    \o When(data.ConsulPartition # "", <<Arg("envoy", "-partition", data.ConsulPartition)>>)
    \o When(data.ConsulNamespace # "", <<Arg("envoy", "-namespace", data.ConsulNamespace)>>)
    \o AdminBind(data)
    \o <<IF data.MultiPort
         THEN Arg("envoy", "-bootstrap >",
                  "/consul/connect-inject/envoy-bootstrap-" \o data.ServiceName \o ".yaml")
         ELSE Arg("envoy", "-bootstrap >", "/consul/connect-inject/envoy-bootstrap.yaml")>>

\* Lines 482-508
RedirectTrafficFlags(data) ==
    When(data.AuthMethod # "",
         <<Arg("redirect-traffic", "-token-file", "/consul/connect-inject/acl-token")>>)
    \o When(data.ConsulPartition # "",
            <<Arg("redirect-traffic", "-partition", data.ConsulPartition)>>)
    \o When(data.ConsulNamespace # "",
            <<Arg("redirect-traffic", "-namespace", data.ConsulNamespace)>>)
    \o When(data.ConsulDNSClusterIP # "",
            <<Arg("redirect-traffic", "-consul-dns-ip", data.ConsulDNSClusterIP)>>)
    \o Each("redirect-traffic", "-exclude-inbound-port", data.TProxyExcludeInboundPorts)
    \o Each("redirect-traffic", "-exclude-outbound-port", data.TProxyExcludeOutboundPorts)
    \o Each("redirect-traffic", "-exclude-outbound-cidr", data.TProxyExcludeOutboundCIDRs)
    \o Each("redirect-traffic", "-exclude-uid", data.TProxyExcludeUIDs)
    \o <<Cat("redirect-traffic", "-proxy-id", "/consul/connect-inject/proxyid"),
         Arg("redirect-traffic", "-proxy-uid", ToString(data.EnvoyUID))>>

\* Variant: the step is rendered whenever transparent proxying is enabled.
RedirectTraffic_withCNI(data) ==
    When(data.EnableTransparentProxy, RedirectTrafficFlags(data))

\* Lines 476-510
RedirectTraffic(data) ==
    When(data.EnableTransparentProxy, When(~data.EnableCNI, RedirectTrafficFlags(data)))

\* Lines 255-262: tpl.Execute
initContainerCommandTpl(data) ==
    Exports(data) \o ConnectInit(data) \o Envoy(data) \o RedirectTraffic(data)

\* return corev1.Container{}, err
NoContainer(err) ==
    [err |-> err, Name |-> "", Command |-> <<>>, VolumeMounts |-> <<>>,
     SecurityContext |-> <<>>]

\* Variant: the container never runs as root.
SecurityContext_neverRoot(tproxyEnabled, enableCNI) ==
    IF ~tproxyEnabled
    THEN <<>>
    ELSE <<[RunAsUser |-> initContainersUserAndGroupID,
            RunAsGroup |-> initContainersUserAndGroupID,
            RunAsNonRoot |-> TRUE, Privileged |-> FALSE,
            Add |-> {}, Drop |-> {"ALL"}]>>

\* Variant: the container runs as root whenever transparent proxying is
\* enabled.
SecurityContext_ignoresCNI(tproxyEnabled, enableCNI) ==
    IF ~tproxyEnabled
    THEN <<>>
    ELSE <<[RunAsUser |-> rootUserAndGroupID, RunAsGroup |-> rootUserAndGroupID,
            RunAsNonRoot |-> FALSE, Privileged |-> TRUE,
            Add |-> {netAdminCapability}, Drop |-> {}]>>

\* Lines 302-327
SecurityContext(tproxyEnabled, enableCNI) ==
    IF ~tproxyEnabled
    THEN <<>>
    ELSE IF ~enableCNI
         THEN <<[RunAsUser |-> rootUserAndGroupID, RunAsGroup |-> rootUserAndGroupID,
                 RunAsNonRoot |-> FALSE, Privileged |-> TRUE,
                 Add |-> {netAdminCapability}, Drop |-> {}]>>
         ELSE <<[RunAsUser |-> initContainersUserAndGroupID,
                 RunAsGroup |-> initContainersUserAndGroupID,
                 RunAsNonRoot |-> TRUE, Privileged |-> FALSE,
                 Add |-> {}, Drop |-> {"ALL"}]>>

\* Lines 264-267
initContainerName(mpi) ==
    IF mpi.serviceName # ""
    THEN InjectInitContainerName \o "-" \o mpi.serviceName
    ELSE InjectInitContainerName

\* Variant: the token's mount is not appended.
VolumeMounts_sharedOnly(w, pod, mpi) ==
    <<[Name |-> volumeName, MountPath |-> "/consul/connect-inject"]>>

\* Lines 181-210: the shared volume, and the token's mount with an auth method
VolumeMounts(w, pod, mpi) ==
    <<[Name |-> volumeName, MountPath |-> "/consul/connect-inject"]>>
    \o When(w.AuthMethod # "",
            <<findServiceAccountVolumeMount(pod, mpi.serviceName # "", mpi.serviceName).mount>>)

\* Lines 255-329
Container(w, pod, mpi, data) ==
    [err |-> "",
     Name |-> initContainerName(mpi),
     Command |-> initContainerCommandTpl(data),
     VolumeMounts |-> VolumeMounts(w, pod, mpi),
     SecurityContext |-> SecurityContext(data.EnableTransparentProxy, w.EnableCNI)]

\* Lines 136-330
containerInit(w, namespace, pod, mpi) ==
    IF transparentProxyEnabled(namespace, pod, w.EnableTransparentProxy).err # ""
    THEN NoContainer(transparentProxyEnabled(namespace, pod, w.EnableTransparentProxy).err)
    ELSE IF consulDNSEnabled(namespace, pod, w.EnableConsulDNS).err # ""
    THEN NoContainer(consulDNSEnabled(namespace, pod, w.EnableConsulDNS).err)
    ELSE IF /\ consulDNSEnabled(namespace, pod, w.EnableConsulDNS).val
            /\ Getenv(constructDNSServiceHostName(w)) = ""
    THEN NoContainer("environment variable is not found")
    ELSE IF /\ w.AuthMethod # ""
            /\ findServiceAccountVolumeMount(pod, mpi.serviceName # "", mpi.serviceName).err # ""
    THEN NoContainer(findServiceAccountVolumeMount(pod, mpi.serviceName # "", mpi.serviceName).err)
    ELSE IF w.MetricsConfig.run.err # ""
    THEN NoContainer(w.MetricsConfig.run.err)
    ELSE IF w.MetricsConfig.run.val /\ w.MetricsConfig.port.err # ""
    THEN NoContainer(w.MetricsConfig.port.err)
    ELSE IF PrometheusTLSError(initContainerCommandData(w, namespace, pod, mpi)) # ""
    THEN NoContainer(PrometheusTLSError(initContainerCommandData(w, namespace, pod, mpi)))
    ELSE Container(w, pod, mpi, initContainerCommandData(w, namespace, pod, mpi))

\* The webhook builds the init containers of the pod under mutation one
\* after the other, one per multiPortInfo, and gives up at the first error.
ContainerInit ==
    /\ Len(initContainers) < Len(multiPortInfos)
    /\ \A i \in 1..Len(initContainers) : initContainers[i].err = ""
    /\ initContainers' =
           Append(initContainers,
                  containerInit(webhook, podNamespace, injectedPod,
                                multiPortInfos[Len(initContainers) + 1]))
    /\ UNCHANGED <<mutation, world, config, proxyDefaults, mode, endpoints, agents, pc, req,
                   locals, result, log, atSweep, lastPass, failures, changes, queue,
                   registeredBy>>

(***************************************************************************)
(* The mutations the webhook is asked for.  The worlds: "tiers" varies the *)
(* three tiers of the tri-level settings, the environment and the          *)
(* exclusion lists; "tls" the Prometheus annotations and the answers of    *)
(* the metrics configuration; "multi" the services of the pod, the auth    *)
(* method and the token mounts; "namespaces" the namespace settings.       *)
(***************************************************************************)
MaxServiceIndex ==
    2

WebhookWorlds ==
    {"tiers", "tls", "multi", "namespaces"}

NoMetrics ==
    [run |-> [val |-> FALSE, err |-> ""], path |-> "", port |-> [val |-> "", err |-> ""]]

MetricsAnswers ==
    {NoMetrics,
     [run |-> [val |-> FALSE, err |-> "unable to parse the metrics annotation"],
      path |-> "", port |-> [val |-> "", err |-> ""]],
     [run |-> [val |-> TRUE, err |-> ""], path |-> "/metrics",
      port |-> [val |-> "20100", err |-> ""]],
     [run |-> [val |-> TRUE, err |-> ""], path |-> "/metrics",
      port |-> [val |-> "", err |-> "unable to find the merged metrics port"]]}

\* MeshWebhook{ResourcePrefix: "consul-consul", ConsulAPITimeout: 5 * time.Second}
MeshWebhook ==
    [EnableTransparentProxy |-> FALSE, EnableConsulDNS |-> FALSE, EnableCNI |-> FALSE,
     ResourcePrefix |-> <<"c","o","n","s","u","l","-","c","o","n","s","u","l">>,
     AuthMethod |-> "", ConsulPartition |-> "", ConsulCACert |-> "",
     EnableNamespaces |-> FALSE, ConsulDestinationNamespace |-> "",
     EnableK8SNSMirroring |-> FALSE, K8SNSMirroringPrefix |-> "",
     ConsulAPITimeout |-> "5s", MetricsConfig |-> NoMetrics]

Webhooks(w) ==
    CASE w = "tiers" ->
           {[MeshWebhook EXCEPT !.EnableTransparentProxy = t, !.EnableConsulDNS = d,
                                !.EnableCNI = c] :
               t \in BOOLEAN, d \in BOOLEAN, c \in BOOLEAN}
      [] w = "tls" ->
           {[MeshWebhook EXCEPT !.MetricsConfig = mc] : mc \in MetricsAnswers}
      [] w = "multi" ->
           {[MeshWebhook EXCEPT !.AuthMethod = a, !.EnableTransparentProxy = t,
                                !.EnableCNI = c] :
               a \in {"", "auth-method"}, t \in BOOLEAN, c \in BOOLEAN}
      [] OTHER ->
           {[MeshWebhook EXCEPT !.AuthMethod = a[1], !.ConsulPartition = a[2],
                                !.EnableNamespaces = n[1], !.ConsulDestinationNamespace = n[2],
                                !.EnableK8SNSMirroring = m[1], !.K8SNSMirroringPrefix = m[2],
                                !.EnableTransparentProxy = t[1], !.EnableCNI = t[2],
                                !.ConsulCACert = t[3]] :
               a \in {"", "auth-method"} \X {"", "part"},
               n \in BOOLEAN \X {"", "default", "non-default"},
               m \in BOOLEAN \X {"", "pre-"},
               t \in {<<FALSE, FALSE, "">>, <<TRUE, FALSE, "">>, <<TRUE, TRUE, "ca">>}}

\* The environment: empty, with the address of the DNS service, or with the
\* address under the prefix as it is written.
Environs(w) ==
    IF w = "tiers"
    THEN {<<>>,
          <<"C","O","N","S","U","L","_","C","O","N","S","U","L","_","D","N","S","_","S","E","R","V","I","C","E","_","H","O","S","T">> :> "10.0.34.16",
          <<"c","o","n","s","u","l","-","c","o","n","s","u","l","_","D","N","S","_","S","E","R","V","I","C","E","_","H","O","S","T">> :> "10.0.34.16"}
    ELSE {<<>>}

\* A missing key is <<>>, a value v of the key is <<v>>.
Entry(k, opt) ==
    IF opt = <<>> THEN <<>> ELSE k :> opt[1]

TriLevelValues ==
    {<<>>, <<"true">>, <<"0">>, <<"yes">>, <<"">>}

TLSValues ==
    {<<>>, <<"">>, <<"/certs/tls">>}

SecretContainers ==
    <<[Name |-> "web", VolumeMounts |-> <<>>],
      [Name |-> "auth-method-secret",
       VolumeMounts |-> <<[Name |-> "service-account-secret",
                           MountPath |-> ServiceAccountMountPath]>>]>>

MutatedPod(annotations, volumes, containers) ==
    [Annotations |-> annotations, Volumes |-> volumes, Containers |-> containers,
     ServiceAccountName |-> "web"]

MutatedPods(w) ==
    CASE w = "tiers" ->
           {MutatedPod(Entry(keyTransparentProxy, a) @@ Entry(keyConsulDNS, b)
                           @@ Entry(annotationTProxyExcludeInboundPorts, x),
                       <<>>, SecretContainers) :
               a \in TriLevelValues, b \in TriLevelValues,
               x \in {<<>>, <<<<"8","0",",",",","9","0">>>>}}
      [] w = "tls" ->
           {MutatedPod(Entry(annotationPrometheusCAFile, a) @@ Entry(annotationPrometheusCAPath, b)
                           @@ Entry(annotationPrometheusCertFile, c)
                           @@ Entry(annotationPrometheusKeyFile, d),
                       <<>>, SecretContainers) :
               a \in TLSValues, b \in TLSValues, c \in TLSValues, d \in TLSValues}
      [] w = "multi" ->
           {MutatedPod(annotationService :> "web,web-admin", v, c) :
               v \in {<<>>, <<"web-admin-service-account">>},
               c \in {SecretContainers, SubSeq(SecretContainers, 1, 1)}}
      [] OTHER ->
           {MutatedPod(annotationService :> "web", <<>>, SecretContainers)}

PodNamespaces(w) ==
    CASE w = "tiers" ->
           {[Name |-> "k8snamespace",
             Labels |-> Entry(keyTransparentProxy, a) @@ Entry(keyConsulDNS, b)] :
               a \in TriLevelValues, b \in TriLevelValues}
      [] w = "namespaces" ->
           {[Name |-> n, Labels |-> <<>>] : n \in {"k8snamespace", "default"}}
      [] OTHER ->
           {[Name |-> "k8snamespace", Labels |-> <<>>]}

\* multiPortInfo{}: one service
SinglePort ==
    [serviceIndex |-> 0, serviceName |-> ""]

MultiPortInfos(w) ==
    IF w = "multi"
    THEN {<<SinglePort>>}
             \cup {<<[serviceIndex |-> i, serviceName |-> "web"],
                     [serviceIndex |-> j, serviceName |-> "web-admin"]>> :
                      i \in 0..MaxServiceIndex, j \in 0..MaxServiceIndex}
             \cup {<<[serviceIndex |-> 0, serviceName |-> "web-admin"],
                     [serviceIndex |-> 1, serviceName |-> "web"]>>}
    ELSE {<<SinglePort>>}

InitWebhook ==
    /\ world \in WebhookWorlds
    /\ mode = "seq"
    /\ InitController
    /\ webhook \in Webhooks(world)
    /\ environ \in Environs(world)
    /\ podNamespace \in PodNamespaces(world)
    /\ injectedPod \in MutatedPods(world)
    /\ multiPortInfos \in MultiPortInfos(world)
    /\ initContainers = <<>>

NextWebhook ==
    ContainerInit

SpecWebhook ==
    InitWebhook /\ [][NextWebhook]_vars


(***************************************************************************)
(* Vocabulary of the properties.                                           *)
(***************************************************************************)
Range(s) ==
    {s[i] : i \in 1..Len(s)}

\* The calls of a kind that the pass of p has issued, as positions of its log.
CallsOf(p, op) ==
    {i \in 1..Len(log[p]) : log[p][i].op = op}

\* The IPs of the addresses of an endpoints object whose target is a Pod.
ListedPodIPs(ep) ==
    {a.IP : a \in {b \in Range(AllAddresses(ep.Subsets)) :
                      b.TargetRef # <<>> /\ b.TargetRef[1].Kind = KindPod}}

\* The instance's metadata names the k8s service and namespace of the key.
Correlated(reg, key) ==
    /\ MetaKeyKubeServiceName \in DOMAIN reg.Meta
    /\ MetaKeyKubeNS \in DOMAIN reg.Meta
    /\ reg.Meta[MetaKeyKubeServiceName] = key.Name
    /\ reg.Meta[MetaKeyKubeNS] = key.Namespace

\* (node, ID) of the correlated instances held by the agents in state ag.
CorrelatedInstances(ag, key) ==
    {<<n, id>> \in UNION {{<<m, i>> : i \in DOMAIN ag[m]} : m \in Nodes} :
        Correlated(ag[n][id], key)}

\* (node, ID) of the deregister calls of the pass of p.
Deregistered(p) ==
    {<<log[p][i].node, log[p][i].id>> : i \in CallsOf(p, "deregister")}

SucceededFound(p) ==
    pc[p] = "done" /\ result[p] = "ok" /\ serviceEndpoints[p] # <<>>

(***************************************************************************)
(* C1.  Sweep of a found endpoints object: a pass that completes           *)
(* successfully has issued a deregister call for exactly the instances     *)
(* correlated to the service/namespace pair whose address is not the IP of *)
(* a listed pod address, and every correlated instance whose address is    *)
(* listed is still registered, unchanged.  With a, b, c registered (in any *)
(* order) and a, c listed, exactly the instances at b's address go.        *)
(***************************************************************************)
C1_SweepDeregistersExactlyUnlisted ==
    \A p \in Procs :
        SucceededFound(p) =>
            LET ep     == serviceEndpoints[p][1]
                before == CorrelatedInstances(atSweep[p], req[p])
                gone   == {x \in before :
                              atSweep[p][x[1]][x[2]].Address \notin ListedPodIPs(ep)}
            IN  /\ Deregistered(p) = gone
                /\ \A x \in before \ gone :
                       /\ x[2] \in DOMAIN agents[x[1]]
                       /\ agents[x[1]][x[2]] = atSweep[p][x[1]][x[2]]
                /\ \A x \in gone : x[2] \notin DOMAIN agents[x[1]]

\* a and c are listed, b's two instances were registered and are the only
\* ones deregistered, a's and c's are still held.
C1_Witness ==
    /\ SucceededFound(1)
    /\ ListedPodIPs(serviceEndpoints[1][1]) = {PodA.PodIP, PodC.PodIP}
    /\ Deregistered(1) = {<<2, ServiceID(PodB, serviceEndpoints[1][1])>>,
                          <<2, ProxyServiceID(PodB, serviceEndpoints[1][1])>>}
    /\ ServiceID(PodA, serviceEndpoints[1][1]) \in DOMAIN agents[1]
    /\ ProxyServiceID(PodC, serviceEndpoints[1][1]) \in DOMAIN agents[1]

(***************************************************************************)
(* C2.  Deleted endpoints object: when the fetch reports not-found the     *)
(* pass issues no register call; unless a call fails it ends successfully, *)
(* having issued a deregister call for every instance, on every agent,     *)
(* whose metadata names the request's service name and namespace, and for  *)
(* no other instance.                                                      *)
(***************************************************************************)
NotFoundBranch(p) ==
    log[p] # <<>> /\ log[p][1].res = "notfound"

C2_DeletedObjectDeregistersAll ==
    \A p \in Procs :
        NotFoundBranch(p) =>
            /\ CallsOf(p, "register") = {}
            /\ pc[p] = "done" =>
                   \/ /\ result[p] = "ok"
                      /\ Deregistered(p) = CorrelatedInstances(atSweep[p], req[p])
                      /\ CorrelatedInstances(agents, req[p]) = {}
                   \/ /\ result[p] = "err"
                      /\ log[p][Len(log[p])].res = "err"

\* The object is gone and instances on both agents have been deregistered.
C2_Witness ==
    /\ NotFoundBranch(1) /\ pc[1] = "done" /\ result[1] = "ok"
    /\ \A n \in Nodes : \E x \in Deregistered(1) : x[1] = n
    /\ Cardinality(Deregistered(1)) >= 4

(***************************************************************************)
(* C3.  In a successful pass on a found object the pods for which a        *)
(* service and a proxy registration are sent, to the agent of the pod's    *)
(* host, are exactly the pods referenced by a Pod address of the ready or  *)
(* the not-ready subset that carry the injected status marker.             *)
(***************************************************************************)
\* The pods that a Pod address of the object names and that carry the marker.
ListedInjectedPods(ep) ==
    {q \in Pods :
        /\ \E a \in Range(AllAddresses(ep.Subsets)) :
              /\ a.TargetRef # <<>>
              /\ a.TargetRef[1].Kind = KindPod
              /\ a.TargetRef[1].Name = q.Name
              /\ a.TargetRef[1].Namespace = q.Namespace
        /\ annotationStatus \in DOMAIN q.Annotations
        /\ q.Annotations[annotationStatus] = injected}

\* (node, ID, pod name) of the register calls of the pass of p.
Registered(p) ==
    {<<log[p][i].node, log[p][i].id, log[p][i].pod>> : i \in CallsOf(p, "register")}

C3_RegistersExactlyListedInjected ==
    \A p \in Procs :
        SucceededFound(p) =>
            Registered(p) =
                UNION {{<<AgentAt(q.HostIP), ServiceID(q, serviceEndpoints[p][1]), q.Name>>,
                        <<AgentAt(q.HostIP), ProxyServiceID(q, serviceEndpoints[p][1]), q.Name>>} :
                          q \in ListedInjectedPods(serviceEndpoints[p][1])}

\* A not-ready injected pod was registered while a ready pod without the
\* marker was not.
C3_Witness ==
    /\ SucceededFound(1)
    /\ serviceEndpoints[1][1].Subsets = <<Subset(<<PodAddr(PodX)>>, <<PodAddr(PodB)>>)>>
    /\ \E x \in Registered(1) : x[3] = PodB.Name
    /\ ServiceID(PodB, serviceEndpoints[1][1]) \in DOMAIN agents[2]

(***************************************************************************)
(* C4.  The first failing step ends the pass with that error: a failed     *)
(* step is the last entry of the pass's log, the pass is over and its      *)
(* result is the error; the failing step changes no agent, so what the     *)
(* pass had registered and deregistered stays as it is; and a pass that    *)
(* has failed issues no further call.                                      *)
(***************************************************************************)
Failed(p) ==
    {i \in 1..Len(log[p]) : log[p][i].res = "err"}

C4_FirstFailureEndsPass ==
    [][\A p \in Procs :
          /\ Failed(p)' # {} =>
                 /\ Failed(p)' = {Len(log'[p])}
                 /\ pc'[p] \in {"done", "idle"}
                 /\ result'[p] = "err"
          /\ result'[p] = "err" => Failed(p)' # {}
          /\ (Failed(p) = {} /\ Failed(p)' # {}) => agents' = agents
          /\ (Failed(p) # {} /\ pc[p] # "idle") => log'[p] = log[p]]_vars

\* The service was registered, the proxy registration failed and the pass
\* ended there: the service is held without its proxy.
C4_Witness ==
    /\ pc[1] = "done" /\ result[1] = "err"
    /\ Len(log[1]) >= 2
    /\ log[1][Len(log[1])].op = "register"
    /\ log[1][Len(log[1]) - 1].op = "register"
    /\ log[1][Len(log[1]) - 1].id \in DOMAIN agents[log[1][Len(log[1]) - 1].node]
    /\ log[1][Len(log[1])].id \notin DOMAIN agents[log[1][Len(log[1]) - 1].node]

(***************************************************************************)
(* C5.  A pass is idempotent: when a successful pass is followed by a      *)
(* second successful pass for the same key on the same endpoints object    *)
(* (pods and agents unchanged), every agent holds after the second pass    *)
(* exactly the registrations (IDs, addresses, metadata) it held after the  *)
(* first, and the second pass has deregistered nothing.                    *)
(***************************************************************************)
\* The pass of p has succeeded and repeats the pass that finished last.
RepeatsLastPass(p) ==
    /\ pc[p] = "done" /\ result[p] = "ok" /\ log[p] # <<>>
    /\ lastPass # <<>>
    /\ lastPass[1].key = req[p]
    /\ lastPass[1].serviceEndpoints = serviceEndpoints[p]

C5_PassIsIdempotent ==
    \A p \in Procs :
        RepeatsLastPass(p) =>
            /\ agents = lastPass[1].agents
            /\ CallsOf(p, "deregister") = {}

\* The repeated pass has registered pods on both agents again.
C5_Witness ==
    /\ RepeatsLastPass(1)
    /\ serviceEndpoints[1] # <<>>
    /\ \A n \in Nodes : \E x \in Registered(1) : x[1] = n

(***************************************************************************)
(* C7.  Skip rule: a pass whose namespace is in the default-system set, on *)
(* the deny list, or absent from an allow list that lacks the wildcard     *)
(* returns success without fetching the endpoints object and without any   *)
(* agent call, whatever the allow list says otherwise; a pass for every    *)
(* other namespace is processed, i.e. starts with the fetch.               *)
(***************************************************************************)
SystemNamespaces ==
    {NamespaceSystem, NamespacePublic, LocalPathStorage}

SkipNamespace(ns) ==
    \/ ns \in SystemNamespaces
    \/ ns \in config.deny
    \/ ns \notin config.allow /\ Wildcard \notin config.allow

C7_SkipRule ==
    \A p \in Procs :
        pc[p] # "idle" =>
            IF SkipNamespace(req[p].Namespace)
            THEN /\ pc[p] = "done" /\ result[p] = "ok"
                 /\ log[p] = <<>>
                 /\ agents = atSweep[p]
            ELSE /\ log[p] # <<>>
                 /\ log[p][1].op = "getEndpoints"

\* A denied namespace is skipped although the allow list holds the wildcard,
\* its endpoints object exists and an agent holds instances.
C7_Witness ==
    /\ pc[1] = "done" /\ log[1] = <<>>
    /\ req[1].Namespace \in config.deny
    /\ Wildcard \in config.allow
    /\ endpoints[req[1]] # <<>>
    /\ \E n \in Nodes : agents[n] # <<>>

(***************************************************************************)
(* C9.  The metadata of both built registrations maps pod-name to the      *)
(* pod's name, k8s-service-name to the endpoints object's name and         *)
(* k8s-namespace to its namespace, whatever annotations the pod carries:   *)
(* annotations with the metadata prefix never change these three values.   *)
(***************************************************************************)
CorrelationTriple(meta, pod, ep) ==
    /\ Has(meta, MetaKeyPodName) /\ meta[MetaKeyPodName] = pod.Name
    /\ Has(meta, MetaKeyKubeServiceName) /\ meta[MetaKeyKubeServiceName] = ep.Name
    /\ Has(meta, MetaKeyKubeNS) /\ meta[MetaKeyKubeNS] = ep.Namespace

C9_MetaKeepsCorrelationTriple ==
    \A p \in Procs :
        registrations[p] # <<>> =>
            /\ CorrelationTriple(registrations[p][2].Meta, registrations[p][1],
                                 serviceEndpoints[p][1])
            /\ CorrelationTriple(registrations[p][3].Meta, registrations[p][1],
                                 serviceEndpoints[p][1])

(***************************************************************************)
(* C10.  When the port annotation is present, non-empty and cannot be      *)
(* resolved against the pod's container ports, the builder returns an      *)
(* error and no registrations; when the annotation is absent the service   *)
(* registration is built with port 0.                                      *)
(***************************************************************************)
\* The pod's port annotation is present, non-empty, names no container port
\* and does not parse as a port number.
UnresolvablePort(pod) ==
    /\ Has(pod.Annotations, annotationPort)
    /\ pod.Annotations[annotationPort] # <<>>
    /\ portValue(pod, pod.Annotations[annotationPort]).err

C10_PortResolution ==
    \A p \in Procs :
        registrations[p] # <<>> =>
            /\ ~UnresolvablePort(registrations[p][1])
            /\ ~Has(registrations[p][1].Annotations, annotationPort) =>
                   registrations[p][2].Port = 0

(***************************************************************************)
(* C8.  Passes for different endpoint keys are independent in every        *)
(* interleaving: a step of a pass for key K leaves every instance that a   *)
(* pass for another key K' registered on its agent, unchanged and still    *)
(* K's own, also when both endpoints objects list the same pod.            *)
(***************************************************************************)
\* The instance id on node n, registered by a pass for another key than the
\* one worker p is on, is the same before and after the step.
Untouched(n, id) ==
    /\ id \in DOMAIN agents'[n]
    /\ agents'[n][id] = agents[n][id]
    /\ registeredBy'[n][id] = registeredBy[n][id]

C8_PassesIndependent ==
    [][\A p \in Procs :
          log'[p] # log[p] =>
              \A n \in Nodes : \A id \in DOMAIN registeredBy[n] :
                  registeredBy[n][id] # req'[p] => Untouched(n, id)]_vars

(***************************************************************************)
(* C6.  Convergence by retry: when the endpoints objects stop changing,    *)
(* every failed pass is followed by another pass for its key and the calls *)
(* stop failing, then from some point on, for every key whose endpoints    *)
(* object exists, every listed injected pod has its service and its proxy  *)
(* registered on its host's agent and no agent holds a correlated instance *)
(* whose address is not listed.                                            *)
(***************************************************************************)
Converged(key) ==
    /\ \A q \in ListedInjectedPods(endpoints[key][1]) :
           {ServiceID(q, endpoints[key][1]), ProxyServiceID(q, endpoints[key][1])}
               \subseteq DOMAIN agents[AgentAt(q.HostIP)]
    /\ \A x \in CorrelatedInstances(agents, key) :
           agents[x[1]][x[2]].Address \in ListedPodIPs(endpoints[key][1])

C6_ConvergenceByRetry ==
    \A key \in Keys : <>[](endpoints[key] # <<>> => Converged(key))

(***************************************************************************)
(* Vocabulary of the upstream properties.                                  *)
(***************************************************************************)
\* The pod of the default namespace with this name.
PodNamed(name) ==
    CHOOSE q \in Pods : q.Name = name /\ q.Namespace = NsDefault

\* The builder has just returned to the pass of p: the last entry of the log.
JustBuilt(p) ==
    /\ log[p] # <<>>
    /\ log[p][Len(log[p])].op = "build"

BuildResult(p) ==
    log[p][Len(log[p])].res

BuiltPod(p) ==
    PodNamed(log[p][Len(log[p])].pod)

\* The builder call that has just returned made a proxy-defaults lookup, and
\* its answer.
LookedUp(p) ==
    /\ JustBuilt(p)
    /\ Len(log[p]) > 1
    /\ log[p][Len(log[p]) - 1].op = "lookup"

LookupAnswer(p) ==
    log[p][Len(log[p]) - 1].res

\* An entry of the upstream annotation with fewer than two colon-delimited
\* parts, or a prepared_query entry with fewer than three.
MalformedEntry(raw) ==
    \/ Len(Split(raw, ":")) < 2
    \/ TrimSpace(Split(raw, ":")[1]) = PreparedQueryToken /\ Len(Split(raw, ":")) < 3

HasMalformedEntry(pod) ==
    \E i \in 1..Len(UpstreamEntries(pod)) : MalformedEntry(UpstreamEntries(pod)[i])

(***************************************************************************)
(* C11.  A malformed upstream list is a hard error and never a crash: when *)
(* the upstream annotation of a pod holds an entry with fewer than two     *)
(* parts, or a prepared_query entry with fewer than three, the builder     *)
(* returns an error and the pass ends with that error.                     *)
(***************************************************************************)
C11_MalformedUpstreamIsError ==
    \A p \in Procs :
        (JustBuilt(p) /\ HasMalformedEntry(BuiltPod(p))) =>
            /\ BuildResult(p) = "err"
            /\ pc[p] \in {"done", "idle"}
            /\ result[p] = "err"

(***************************************************************************)
(* C12.  Mesh-gateway advisory check, as claimed: for an upstream entry    *)
(* that names a datacenter the builder returns an error only when the      *)
(* global proxy-defaults entry exists with a mode that is neither local    *)
(* nor remote, and every failure to obtain the entry leaves the            *)
(* registration unblocked.                                                 *)
(***************************************************************************)
ModeAllows ==
    proxyDefaults \in {MeshGatewayModeLocal, MeshGatewayModeRemote}

C12_OnlyBadModeBlocks ==
    \A p \in Procs :
        LookedUp(p) =>
            /\ BuildResult(p) = "err" => (LookupAnswer(p) = "ok" /\ ~ModeAllows)
            /\ LookupAnswer(p) # "ok" => BuildResult(p) # "err"

(***************************************************************************)
(* C12, amended.  For an upstream entry that names a datacenter the        *)
(* builder returns an error exactly when the lookup of the global          *)
(* proxy-defaults entry answers "not found", or answers with an entry      *)
(* whose mode is neither local nor remote; a lookup that fails otherwise   *)
(* (network failure) leaves the registration unblocked.                    *)
(***************************************************************************)
C12_NotFoundOrBadModeBlocks ==
    \A p \in Procs :
        LookedUp(p) =>
            /\ BuildResult(p) = "err" <=>
                   \/ LookupAnswer(p) = "notfound"
                   \/ LookupAnswer(p) = "ok" /\ ~ModeAllows
            /\ LookupAnswer(p) = "neterr" => BuildResult(p) # "err"

\* The entry exists with a mode that is neither local nor remote, and the
\* builder has returned its error.
C12_Witness ==
    /\ LookedUp(1)
    /\ LookupAnswer(1) = "ok"
    /\ proxyDefaults = "none"
    /\ BuildResult(1) = "err"
    /\ result[1] = "err"

(***************************************************************************)
(* C13.  For an upstream entry that names a datacenter, a "not found"      *)
(* answer for the global proxy-defaults entry makes the builder fail with  *)
(* an error and an empty upstream list, while a network failure of the     *)
(* lookup is ignored: the builder returns what it returns when the entry   *)
(* exists with mode local.                                                 *)
(***************************************************************************)
\* Answers to every lookup of a builder call for pod.
AllAnswer(pod, answer) ==
    [i \in 1..Len(UpstreamEntries(pod)) |-> answer]

CheckPassed(pod, ep) ==
    createServiceRegistrations(pod, ep,
        AllAnswer(pod, [kind |-> "ok", mode |-> MeshGatewayModeLocal]))

C13_NotFoundFailsNetErrorIgnored ==
    \A p \in Procs :
        LookedUp(p) =>
            /\ LookupAnswer(p) = "notfound" =>
                   /\ BuildResult(p) = "err"
                   /\ result[p] = "err"
                   /\ processUpstreams(BuiltPod(p),
                          AllAnswer(BuiltPod(p), [kind |-> "notfound", mode |-> ""])).upstreams
                        = <<>>
            /\ LookupAnswer(p) = "neterr" =>
                   /\ BuildResult(p) = CheckPassed(BuiltPod(p), serviceEndpoints[p][1]).res
                   /\ BuildResult(p) = "ok" =>
                          registrations[p] =
                              <<BuiltPod(p),
                                CheckPassed(BuiltPod(p), serviceEndpoints[p][1]).service[1],
                                CheckPassed(BuiltPod(p), serviceEndpoints[p][1]).proxy[1]>>

\* The lookup failed on the network, the entry does not exist, and the proxy
\* registration carries the upstream with its datacenter.
C13_Witness ==
    /\ LookedUp(1)
    /\ LookupAnswer(1) = "neterr"
    /\ proxyDefaults = "absent"
    /\ BuildResult(1) = "ok"
    /\ registrations[1] # <<>>
    /\ \E i \in 1..Len(registrations[1][3].Proxy[1].Upstreams) :
           registrations[1][3].Proxy[1].Upstreams[i].Datacenter = <<"d","c","2">>

(***************************************************************************)
(* The init container: vocabulary of the claims.                           *)
(***************************************************************************)
\* The values strconv.ParseBool takes for true and for false.
TrueValues ==
    {"1", "t", "T", "TRUE", "true", "True"}

FalseValues ==
    {"0", "f", "F", "FALSE", "false", "False"}

\* The key is present among the settings, with a valid boolean.
Decides(settings, key) ==
    /\ Has(settings, key)
    /\ settings[key] \in TrueValues \cup FalseValues

\* The key is present among the settings, with something else.
Unparseable(settings, key) ==
    /\ Has(settings, key)
    /\ settings[key] \notin TrueValues \cup FalseValues

\* The two tri-level settings of the mutation under way: the key, the global
\* default, and what the resolution returns.
TriLevelSettings ==
    {[key |-> keyTransparentProxy, global |-> webhook.EnableTransparentProxy,
      got |-> transparentProxyEnabled(podNamespace, injectedPod, webhook.EnableTransparentProxy)],
     [key |-> keyConsulDNS, global |-> webhook.EnableConsulDNS,
      got |-> consulDNSEnabled(podNamespace, injectedPod, webhook.EnableConsulDNS)]}

Resolved(val) ==
    [val |-> val, err |-> ""]

\* The i-th containerInit call of the mutation has returned a container.
Planned(i) ==
    /\ i \in 1..Len(initContainers)
    /\ initContainers[i].err = ""

\* C14: a parseable pod annotation decides a tri-level setting whatever the
\* namespace label and the global default are; without the annotation a
\* parseable namespace label decides it whatever the global default is;
\* without both the result is the global default.  Transparent proxying and
\* mesh DNS each follow the rule on their own key.
C14_ThreeTierResolution ==
    initContainers # <<>> =>
        \A s \in TriLevelSettings :
            /\ Decides(injectedPod.Annotations, s.key) =>
                   s.got = Resolved(injectedPod.Annotations[s.key] \in TrueValues)
            /\ ~Has(injectedPod.Annotations, s.key) /\ Decides(podNamespace.Labels, s.key) =>
                   s.got = Resolved(podNamespace.Labels[s.key] \in TrueValues)
            /\ ~Has(injectedPod.Annotations, s.key) /\ ~Has(podNamespace.Labels, s.key) =>
                   s.got = Resolved(s.global)

\* The pod switches transparent proxying off against its namespace and the
\* global default, and DNS on against both: the container is built without a
\* security context.
C14_Witness ==
    /\ Planned(1)
    /\ Lookup(injectedPod.Annotations, keyTransparentProxy) = "0"
    /\ Lookup(podNamespace.Labels, keyTransparentProxy) = "true"
    /\ webhook.EnableTransparentProxy
    /\ Lookup(injectedPod.Annotations, keyConsulDNS) = "true"
    /\ Lookup(podNamespace.Labels, keyConsulDNS) = "0"
    /\ ~webhook.EnableConsulDNS
    /\ initContainers[1].SecurityContext = <<>>

\* The error strconv.ParseBool returns for a value that is no boolean.
ParseError(value) ==
    "strconv.ParseBool: parsing \"" \o value \o "\": invalid syntax"

\* The tier that decides a tri-level setting holds a value that is no
\* boolean: the pod annotation, or the namespace label of a pod without the
\* annotation.
DecidingTierUnparseable(key) ==
    \/ Unparseable(injectedPod.Annotations, key)
    \/ ~Has(injectedPod.Annotations, key) /\ Unparseable(podNamespace.Labels, key)

DecidingValue(key) ==
    IF Has(injectedPod.Annotations, key)
    THEN injectedPod.Annotations[key]
    ELSE podNamespace.Labels[key]

\* C15 as stated: whenever the pod annotation or the namespace label of a
\* tri-level setting is present with a value that is no valid boolean, the
\* resolution returns an error and the synthesis of the plan fails.
C15_UnparseableAlwaysErrors ==
    initContainers # <<>> =>
        \A s \in TriLevelSettings :
            Unparseable(injectedPod.Annotations, s.key) \/ Unparseable(podNamespace.Labels, s.key) =>
                /\ s.got.err # ""
                /\ initContainers[1].err # ""

\* C15, amended: whenever the tier that decides a tri-level setting (the pod
\* annotation when present, else the namespace label when present) holds a
\* value that is no valid boolean, the resolution returns the parse error of
\* that value, never the value of another tier, and the synthesis fails with
\* the parse error of transparent proxying or, when that one resolves, with
\* the one of mesh DNS.  A namespace label under a present pod annotation is
\* not read.
C15_DecidingTierUnparseableErrors ==
    initContainers # <<>> =>
        /\ \A s \in TriLevelSettings :
               DecidingTierUnparseable(s.key) =>
                   s.got = [val |-> FALSE, err |-> ParseError(DecidingValue(s.key))]
        /\ DecidingTierUnparseable(keyTransparentProxy) =>
               initContainers[1] = NoContainer(ParseError(DecidingValue(keyTransparentProxy)))
        /\ ~DecidingTierUnparseable(keyTransparentProxy)
             /\ DecidingTierUnparseable(keyConsulDNS) =>
               initContainers[1] = NoContainer(ParseError(DecidingValue(keyConsulDNS)))

\* The namespace says yes to mesh DNS, the pod has no annotation for it and
\* the global default is off: the call fails with the parse error.
C15_Witness ==
    /\ initContainers # <<>>
    /\ ~Has(injectedPod.Annotations, keyConsulDNS)
    /\ Lookup(podNamespace.Labels, keyConsulDNS) = "yes"
    /\ ~webhook.EnableConsulDNS
    /\ ~DecidingTierUnparseable(keyTransparentProxy)
    /\ initContainers[1].err = ParseError("yes")
    /\ initContainers[1].Command = <<>>

\* The three errors of the validation of the Prometheus TLS annotations.
MissingCA ==
    "Must set one of prometheus-ca-file or prometheus-ca-path when providing prometheus TLS config"

MissingCert ==
    "Must set prometheus-cert-file when providing prometheus TLS config"

MissingKey ==
    "Must set prometheus-key-file when providing prometheus TLS config"

\* The annotation of the pod under mutation is set: present and not empty.
IsSet(annotation) ==
    /\ Has(injectedPod.Annotations, annotation)
    /\ injectedPod.Annotations[annotation] # ""

CASet ==
    IsSet(annotationPrometheusCAFile) \/ IsSet(annotationPrometheusCAPath)

AnyTLSSet ==
    CASet \/ IsSet(annotationPrometheusCertFile) \/ IsSet(annotationPrometheusKeyFile)

\* The call failed, and on the validation only with the error e.
FailsOnTLSOnlyWith(c, e) ==
    /\ c.err # ""
    /\ c.err \in {MissingCA, MissingCert, MissingKey} => c.err = e

\* No step before the validation can fail: both tri-level settings resolve
\* to disabled, there is no auth method, and the metrics configuration
\* answers without an error.
ReachesValidation ==
    /\ webhook.MetricsConfig.run.err = ""
    /\ webhook.MetricsConfig.run.val => webhook.MetricsConfig.port.err = ""
    /\ webhook.AuthMethod = ""
    /\ \A s \in TriLevelSettings : s.got = Resolved(FALSE)

\* C16: with one of CA file, CA path, certificate and key set, the call
\* fails with the missing-CA error when neither CA file nor CA path is set,
\* else with the missing-certificate error when the certificate is not set,
\* else with the missing-key error when the key is not set: one error, the
\* first in this order, and it is returned whenever the earlier steps went
\* through.  With CA, certificate and key set, or none of the four, the call
\* never fails on the validation.
C16_PrometheusTLSValidation ==
    initContainers # <<>> =>
        /\ AnyTLSSet /\ ~CASet =>
               /\ FailsOnTLSOnlyWith(initContainers[1], MissingCA)
               /\ ReachesValidation => initContainers[1].err = MissingCA
        /\ CASet /\ ~IsSet(annotationPrometheusCertFile) =>
               /\ FailsOnTLSOnlyWith(initContainers[1], MissingCert)
               /\ ReachesValidation => initContainers[1].err = MissingCert
        /\ CASet /\ IsSet(annotationPrometheusCertFile) /\ ~IsSet(annotationPrometheusKeyFile) =>
               /\ FailsOnTLSOnlyWith(initContainers[1], MissingKey)
               /\ ReachesValidation => initContainers[1].err = MissingKey
        /\ \/ ~AnyTLSSet
           \/ CASet /\ IsSet(annotationPrometheusCertFile) /\ IsSet(annotationPrometheusKeyFile)
           => /\ initContainers[1].err \notin {MissingCA, MissingCert, MissingKey}
              /\ ReachesValidation => initContainers[1].err = ""

\* Only the key is set: of the three things missing, the CA is reported.
C16_Witness ==
    /\ initContainers # <<>>
    /\ IsSet(annotationPrometheusKeyFile)
    /\ ~CASet
    /\ ~IsSet(annotationPrometheusCertFile)
    /\ Has(injectedPod.Annotations, annotationPrometheusCAPath)
    /\ webhook.MetricsConfig.run.val
    /\ initContainers[1] = NoContainer(MissingCA)

\* The arguments the flag is given in the step of a command.
ArgsOf(command, step, flag) ==
    {command[k].arg : k \in {j \in 1..Len(command) : command[j].step = step /\ command[j].flag = flag}}

\* The number of lines of the step that carry the flag.
Occurrences(command, step, flag) ==
    Cardinality({j \in 1..Len(command) : command[j].step = step /\ command[j].flag = flag})

\* C17: the plan of a service of a multiport pod binds the admin port
\* 19000 + serviceIndex, once, so two plans of one pod with different indices
\* never bind the same port; the plan of a single service has no admin-bind
\* flag.
C17_AdminBindPort ==
    \A i \in 1..Len(initContainers) :
        Planned(i) =>
            /\ multiPortInfos[i].serviceName # "" =>
                   /\ Occurrences(initContainers[i].Command, "envoy", "-admin-bind") = 1
                   /\ ArgsOf(initContainers[i].Command, "envoy", "-admin-bind")
                        = {"127.0.0.1:" \o ToString(19000 + multiPortInfos[i].serviceIndex)}
                   /\ \A j \in 1..Len(initContainers) :
                          /\ Planned(j)
                          /\ multiPortInfos[j].serviceIndex # multiPortInfos[i].serviceIndex
                          => ArgsOf(initContainers[j].Command, "envoy", "-admin-bind")
                               \cap ArgsOf(initContainers[i].Command, "envoy", "-admin-bind") = {}
            /\ multiPortInfos[i].serviceName = "" =>
                   \A k \in 1..Len(initContainers[i].Command) :
                       initContainers[i].Command[k].flag # "-admin-bind"

\* The two services of a pod, the second with the highest index: the ports
\* are 19000 and 19000 + MaxServiceIndex.
C17_Witness ==
    /\ Planned(1)
    /\ Planned(2)
    /\ multiPortInfos[1].serviceIndex = 0
    /\ multiPortInfos[2].serviceIndex = MaxServiceIndex
    /\ ArgsOf(initContainers[1].Command, "envoy", "-admin-bind") = {"127.0.0.1:19000"}
    /\ ArgsOf(initContainers[2].Command, "envoy", "-admin-bind")
         = {"127.0.0.1:" \o ToString(19000 + MaxServiceIndex)}

\* The flags of a command that name a proxy-id file, an ACL-token file or an
\* envoy-bootstrap file, to write or to read.
PlanFileFlags ==
    {"-proxy-id-file", "-proxy-id", "-acl-token-sink", "-token-file", "-bootstrap >"}

\* The files of these kinds that the steps of a command name.
PlanFiles(command) ==
    {command[k].arg : k \in {j \in 1..Len(command) : command[j].flag \in PlanFileFlags}}

\* C18: the plans of two different services of one pod name disjoint
\* proxy-id, ACL-token and envoy-bootstrap files, whatever the configuration
\* (auth method, transparent proxying, CNI), and their containers have
\* different names.
C18_PlansOfOnePodIndependent ==
    \A i, j \in 1..Len(initContainers) :
        /\ Planned(i)
        /\ Planned(j)
        /\ multiPortInfos[i].serviceName # ""
        /\ multiPortInfos[j].serviceName # ""
        /\ multiPortInfos[i].serviceName # multiPortInfos[j].serviceName
        => /\ PlanFiles(initContainers[i].Command) \cap PlanFiles(initContainers[j].Command) = {}
           /\ initContainers[i].Name # initContainers[j].Name


\* The namespace of the mesh the pod under mutation is registered in.
MeshNamespace ==
    consulNamespace(webhook, podNamespace.Name)

\* The steps of a command.
StepsOf(command) ==
    {command[k].step : k \in 1..Len(command)}

\* C19: with an auth method and a non-empty mesh namespace the connect-init
\* step gets -auth-method-namespace="default" when namespace mirroring is
\* enabled and the mesh namespace otherwise; the connect-init, envoy and
\* redirect-traffic steps carry the mesh namespace as their service
\* namespace; without an auth method, or with an empty mesh namespace, no
\* -auth-method-namespace flag is rendered.
C19_NamespaceTargeting ==
    \A i \in 1..Len(initContainers) :
        Planned(i) =>
            /\ webhook.AuthMethod # "" /\ MeshNamespace # "" =>
                   /\ Occurrences(initContainers[i].Command, "connect-init", "-auth-method-namespace") = 1
                   /\ ArgsOf(initContainers[i].Command, "connect-init", "-auth-method-namespace")
                        = {IF webhook.EnableK8SNSMirroring THEN "default" ELSE MeshNamespace}
            /\ webhook.AuthMethod = "" \/ MeshNamespace = "" =>
                   \A k \in 1..Len(initContainers[i].Command) :
                       initContainers[i].Command[k].flag # "-auth-method-namespace"
            /\ MeshNamespace # "" =>
                   /\ ArgsOf(initContainers[i].Command, "connect-init", "-consul-service-namespace")
                        = {MeshNamespace}
                   /\ ArgsOf(initContainers[i].Command, "envoy", "-namespace") = {MeshNamespace}
                   /\ "redirect-traffic" \in StepsOf(initContainers[i].Command) =>
                          ArgsOf(initContainers[i].Command, "redirect-traffic", "-namespace")
                            = {MeshNamespace}
            /\ MeshNamespace = "" =>
                   \A k \in 1..Len(initContainers[i].Command) :
                       initContainers[i].Command[k].flag
                           \notin {"-consul-service-namespace", "-namespace"}

\* Mirroring with a prefix, an auth method and a fixed destination namespace
\* that mirroring overrides: the auth method is looked up in default, the
\* three steps register in pre-k8snamespace.
C19_Witness ==
    /\ Planned(1)
    /\ webhook.AuthMethod # ""
    /\ webhook.EnableK8SNSMirroring
    /\ webhook.ConsulDestinationNamespace = "non-default"
    /\ MeshNamespace = "pre-k8snamespace"
    /\ ArgsOf(initContainers[1].Command, "connect-init", "-auth-method-namespace") = {"default"}
    /\ ArgsOf(initContainers[1].Command, "envoy", "-namespace") = {"pre-k8snamespace"}
    /\ ArgsOf(initContainers[1].Command, "redirect-traffic", "-namespace") = {"pre-k8snamespace"}

\* The positions of the lines of a step in a command.
LinesOf(command, step) ==
    {k \in 1..Len(command) : command[k].step = step}

\* C20: the redirect-traffic step is part of the plan exactly when
\* transparent proxying resolves to enabled and CNI is not enabled; it then is
\* the last step, after connect-init and the envoy bootstrap, and its last
\* flag is the proxy UID 5995.
C20_RedirectTrafficStep ==
    \A i \in 1..Len(initContainers) :
        Planned(i) =>
            /\ "redirect-traffic" \in StepsOf(initContainers[i].Command)
                 <=> /\ transparentProxyEnabled(podNamespace, injectedPod,
                                                webhook.EnableTransparentProxy).val
                     /\ ~webhook.EnableCNI
            /\ "redirect-traffic" \in StepsOf(initContainers[i].Command) =>
                   /\ LinesOf(initContainers[i].Command, "connect-init") # {}
                   /\ LinesOf(initContainers[i].Command, "envoy") # {}
                   /\ \A k \in LinesOf(initContainers[i].Command, "connect-init"),
                         l \in LinesOf(initContainers[i].Command, "envoy"),
                         n \in LinesOf(initContainers[i].Command, "redirect-traffic") :
                          k < l /\ l < n
                   /\ initContainers[i].Command[Len(initContainers[i].Command)].step
                        = "redirect-traffic"
                   /\ initContainers[i].Command[Len(initContainers[i].Command)].flag = "-proxy-uid"
                   /\ initContainers[i].Command[Len(initContainers[i].Command)].arg = "5995"

\* The namespace label switches transparent proxying on against the global
\* default, CNI is off and inbound ports are excluded: the step is rendered
\* with its exclusions and ends with the proxy UID.
C20_Witness ==
    /\ Planned(1)
    /\ ~webhook.EnableTransparentProxy
    /\ ~webhook.EnableCNI
    /\ ~Has(injectedPod.Annotations, keyTransparentProxy)
    /\ Lookup(podNamespace.Labels, keyTransparentProxy) = "true"
    /\ Occurrences(initContainers[1].Command, "redirect-traffic", "-exclude-inbound-port") = 3
    /\ Occurrences(initContainers[1].Command, "redirect-traffic", "-consul-dns-ip") = 1
    /\ initContainers[1].Command[Len(initContainers[1].Command)]
         = Arg("redirect-traffic", "-proxy-uid", "5995")

\* Transparent proxying resolves to enabled for the pod under mutation.
TProxyResolved ==
    transparentProxyEnabled(podNamespace, injectedPod, webhook.EnableTransparentProxy).val

\* C21: the security context of the init container.  Transparent proxying
\* enabled and CNI disabled: uid and gid 0, privileged, NET_ADMIN added.
\* Transparent proxying enabled and CNI enabled: uid and gid 5996, non-root,
\* unprivileged, all capabilities dropped.  Transparent proxying disabled: no
\* security context, whatever the CNI setting.
C21_SecurityContext ==
    \A i \in 1..Len(initContainers) :
        Planned(i) =>
            /\ TProxyResolved /\ ~webhook.EnableCNI =>
                   initContainers[i].SecurityContext =
                       <<[RunAsUser |-> 0, RunAsGroup |-> 0, RunAsNonRoot |-> FALSE,
                          Privileged |-> TRUE, Add |-> {"NET_ADMIN"}, Drop |-> {}]>>
            /\ TProxyResolved /\ webhook.EnableCNI =>
                   initContainers[i].SecurityContext =
                       <<[RunAsUser |-> 5996, RunAsGroup |-> 5996, RunAsNonRoot |-> TRUE,
                          Privileged |-> FALSE, Add |-> {}, Drop |-> {"ALL"}]>>
            /\ ~TProxyResolved => initContainers[i].SecurityContext = <<>>

\* The pod asks for transparent proxying against the global default and CNI
\* is enabled: the container runs as 5996 with all capabilities dropped.
C21_Witness ==
    /\ Planned(1)
    /\ Lookup(injectedPod.Annotations, keyTransparentProxy) = "true"
    /\ ~webhook.EnableTransparentProxy
    /\ webhook.EnableCNI
    /\ initContainers[1].SecurityContext # <<>>
    /\ initContainers[1].SecurityContext[1].RunAsUser = 5996
    /\ initContainers[1].SecurityContext[1].Drop = {"ALL"}

\* A mount of the service account token is found for the call: a container
\* of the pod mounts the token, or the pod of a multiport call has the
\* volume of the service's own account.
TokenMountFound(mpi) ==
    \/ \E c \in 1..Len(injectedPod.Containers) :
           \E v \in 1..Len(injectedPod.Containers[c].VolumeMounts) :
               injectedPod.Containers[c].VolumeMounts[v].MountPath
                   = "/var/run/secrets/kubernetes.io/serviceaccount"
    \/ /\ mpi.serviceName # ""
       /\ \E v \in 1..Len(injectedPod.Volumes) :
              injectedPod.Volumes[v] = mpi.serviceName \o "-service-account"

\* The flags of a command that only an auth method brings.
AuthOnlyFlags ==
    {"-acl-auth-method", "-service-account-name", "-bearer-token-file", "-acl-token-sink",
     "-auth-method-namespace", "-token-file"}

SharedVolumeMount ==
    [Name |-> "consul-connect-inject-data", MountPath |-> "/consul/connect-inject"]

DNSResolved ==
    consulDNSEnabled(podNamespace, injectedPod, webhook.EnableConsulDNS)

\* Both tri-level settings of the pod resolve without an error.
SettingsResolve ==
    /\ transparentProxyEnabled(podNamespace, injectedPod, webhook.EnableTransparentProxy).err = ""
    /\ DNSResolved.err = ""

\* The environment variable of the DNS service of the resource prefix
\* consul-consul: upper case, underscores for hyphens, _DNS_SERVICE_HOST.
DNSHostVariable ==
    <<"C","O","N","S","U","L","_","C","O","N","S","U","L","_",
      "D","N","S","_","S","E","R","V","I","C","E","_","H","O","S","T">>

DNSHostValue ==
    IF DNSHostVariable \in DOMAIN environ THEN environ[DNSHostVariable] ELSE ""

EnvironmentError ==
    "environment variable is not found"

\* C23: when Consul DNS resolves to true and the environment has no value
\* under the upper-cased, underscored resource prefix followed by
\* _DNS_SERVICE_HOST, the call fails; when the value is there the call does
\* not fail for it and the redirect-traffic step, if rendered, is given that
\* value as -consul-dns-ip; when Consul DNS resolves to false the call never
\* fails for the environment and no command has a -consul-dns-ip flag.
C23_DNSHostFromEnvironment ==
    \A i \in 1..Len(initContainers) :
        SettingsResolve =>
            /\ DNSResolved.val /\ DNSHostValue = "" =>
                   initContainers[i] = NoContainer(EnvironmentError)
            /\ DNSResolved.val /\ DNSHostValue # "" =>
                   /\ initContainers[i].err # EnvironmentError
                   /\ Planned(i) /\ "redirect-traffic" \in StepsOf(initContainers[i].Command) =>
                          /\ Occurrences(initContainers[i].Command,
                                         "redirect-traffic", "-consul-dns-ip") = 1
                          /\ ArgsOf(initContainers[i].Command,
                                    "redirect-traffic", "-consul-dns-ip") = {DNSHostValue}
            /\ ~DNSResolved.val =>
                   /\ initContainers[i].err # EnvironmentError
                   /\ \A k \in 1..Len(initContainers[i].Command) :
                          initContainers[i].Command[k].flag # "-consul-dns-ip"

\* Consul DNS is switched on by the namespace label, the variable is set and
\* the redirect-traffic step carries its value.
C23_Witness ==
    /\ Planned(1)
    /\ DNSResolved.val
    /\ ~webhook.EnableConsulDNS
    /\ DNSHostValue = "10.0.34.16"
    /\ ArgsOf(initContainers[1].Command, "redirect-traffic", "-consul-dns-ip") = {"10.0.34.16"}

(***************************************************************************)
(* Vocabulary of the call order of a pass.                                 *)
(***************************************************************************)
\* The pod of the call at position i of the log of p.
CalledPod(p, i) ==
    CHOOSE q \in Pods : q.Name = log[p][i].pod

\* The register call at position i of the log of p registers the sidecar
\* proxy of its pod.
IsProxyCall(p, i) ==
    /\ log[p][i].op = "register"
    /\ log[p][i].id = ProxyServiceID(CalledPod(p, i), serviceEndpoints[p][1])

IsServiceCall(p, i) ==
    /\ log[p][i].op = "register"
    /\ log[p][i].id = ServiceID(CalledPod(p, i), serviceEndpoints[p][1])

\* The names of the pods that the Pod addresses of the fetched object target.
TargetedPodNames(p) ==
    {a.TargetRef[1].Name :
        a \in {b \in Range(AllAddresses(serviceEndpoints[p][1].Subsets)) :
                  b.TargetRef # <<>> /\ b.TargetRef[1].Kind = KindPod}}

\* C24: in a pass every register call goes to the agent at the host IP of
\* its pod; the call that registers a pod's proxy comes right after the
\* call that registered the pod's service, and that call succeeded; and the
\* sweep lists the services of an agent only when every address of every
\* subset has been processed: all register calls and pod lookups of the
\* pass come before the first such call, and every targeted pod was looked up.
C24_RegisterOrderThenSweep ==
    \A p \in Procs :
        /\ \A i \in CallsOf(p, "register") :
               /\ log[p][i].node = AgentAt(CalledPod(p, i).HostIP)
               /\ IsServiceCall(p, i) \/ IsProxyCall(p, i)
               /\ IsProxyCall(p, i) =>
                      /\ i > 1
                      /\ IsServiceCall(p, i - 1)
                      /\ log[p][i - 1].pod = log[p][i].pod
                      /\ log[p][i - 1].node = log[p][i].node
                      /\ log[p][i - 1].res = "ok"
        /\ \A i \in CallsOf(p, "services") :
               /\ \A j \in CallsOf(p, "register") \cup CallsOf(p, "getPod") : j < i
               /\ serviceEndpoints[p] # <<>> =>
                      TargetedPodNames(p) = {log[p][j].pod : j \in CallsOf(p, "getPod")}
        /\ pc[p] \in {"listAgents", "listServices", "deregister"} => allAddresses[p] = <<>>

\* Pods on both hosts were registered, service before proxy, and the agents
\* were swept afterwards.
C24_Witness ==
    /\ SucceededFound(1)
    /\ Cardinality(CallsOf(1, "register")) = 6
    /\ \A n \in Nodes : \E i \in CallsOf(1, "register") : log[1][i].node = n
    /\ Cardinality(CallsOf(1, "services")) = 2

(***************************************************************************)
(* Vocabulary of the membership map.                                       *)
(***************************************************************************)
\* The addresses of the pods for which the pass of p has made both
\* register calls successfully.
RegisteredAddresses(p) ==
    {CalledPod(p, i).PodIP :
        i \in {j \in CallsOf(p, "register") : IsProxyCall(p, j) /\ log[p][j].res = "ok"}}

\* The pass of p has reached the sweep of a found object.
AtSweep(p) ==
    /\ pc[p] \in {"listAgents", "listServices", "deregister"}
    /\ serviceEndpoints[p] # <<>>
    /\ endpointAddressMap[p] # <<>>

\* C25: when the sweep of a found object starts, the membership map holds
\* exactly the addresses of the pods this pass has registered; the address
\* of a pod that the inject check skipped is not in it.
C25_MapHoldsRegisteredOnly ==
    \A p \in Procs :
        AtSweep(p) => endpointAddressMap[p][1] = RegisteredAddresses(p)

(***************************************************************************)
(* Vocabulary of convergence.                                              *)
(***************************************************************************)
\* (node, ID) of the service and proxy instances of the injected pods that
\* the object lists, on the agents of the pods' hosts.
InstancesOfListed(ep) ==
    UNION {{<<AgentAt(q.HostIP), ServiceID(q, ep)>>,
            <<AgentAt(q.HostIP), ProxyServiceID(q, ep)>>} : q \in ListedInjectedPods(ep)}

\* The instance names, in its metadata, a pod that the object lists and
\* that is injected.
OfListedPod(reg, ep) ==
    /\ MetaKeyPodName \in DOMAIN reg.Meta
    /\ \E q \in ListedInjectedPods(ep) : q.Name = reg.Meta[MetaKeyPodName]

\* C26: after a successful pass on a found object the instances correlated
\* to the key, over all agents, are exactly the service and proxy instances
\* of the injected pods the object lists; no instance of a pod that is no
\* longer listed is left, whatever pod has its address now.
C26_ExactConvergence ==
    \A p \in Procs :
        SucceededFound(p) =>
            /\ CorrelatedInstances(agents, req[p]) = InstancesOfListed(serviceEndpoints[p][1])
            /\ \A x \in CorrelatedInstances(agents, req[p]) :
                   OfListedPod(agents[x[1]][x[2]], serviceEndpoints[p][1])

\* Pod b is no longer listed, the injected pod r with b's address is, and
\* the successful pass has left b's instances on b's agent.
C26_StaleAfterTakeover ==
    /\ SucceededFound(1)
    /\ ListedInjectedPods(serviceEndpoints[1][1]) = {PodA, PodR}
    /\ <<2, ServiceID(PodB, serviceEndpoints[1][1])>> \in CorrelatedInstances(agents, req[1])

\* The same with the non-injected pod n at b's address.
C26_StaleBehindNonInjected ==
    /\ SucceededFound(1)
    /\ ListedInjectedPods(serviceEndpoints[1][1]) = {PodA}
    /\ PodN.PodIP \in ListedPodIPs(serviceEndpoints[1][1])
    /\ <<2, ServiceID(PodB, serviceEndpoints[1][1])>> \in CorrelatedInstances(agents, req[1])

(***************************************************************************)
(* Vocabulary of overlapping passes for one key.                           *)
(***************************************************************************)
\* The pass of p has returned successfully from a found object.
FinishedFound(p) ==
    /\ pc[p] \in {"done", "idle"}
    /\ result[p] = "ok"
    /\ serviceEndpoints[p] # <<>>

\* An agent holds an instance whose metadata names the pod.
HeldSomewhere(pod) ==
    \E n \in Nodes : \E id \in DOMAIN agents[n] :
        /\ MetaKeyPodName \in DOMAIN agents[n][id].Meta
        /\ agents[n][id].Meta[MetaKeyPodName] = pod.Name

\* C27: two passes for the same key have both finished successfully, the
\* one having read the endpoints object while it listed pod b and the other
\* having read the object as it is now, without b: then no agent holds an
\* instance of b.  (In this world b is listed first and removed later.)
C27_OverlapLeavesNoRemovedPod ==
    \A p, q \in Procs :
        /\ p # q /\ req[p] = req[q]
        /\ FinishedFound(p) /\ FinishedFound(q)
        /\ PodB \in ListedInjectedPods(serviceEndpoints[p][1])
        /\ PodB \notin ListedInjectedPods(serviceEndpoints[q][1])
        /\ endpoints[req[q]] = serviceEndpoints[q]
        => ~HeldSomewhere(PodB)

(***************************************************************************)
(* Vocabulary of the service/proxy pairs.                                  *)
(***************************************************************************)
\* The agent of node n holds an instance correlated to the key whose
\* metadata names pod name and that is (proxy) or is not a sidecar proxy.
HoldsInstanceOf(n, key, name, proxy) ==
    \E id \in DOMAIN agents[n] :
        /\ Correlated(agents[n][id], key)
        /\ MetaKeyPodName \in DOMAIN agents[n][id].Meta
        /\ agents[n][id].Meta[MetaKeyPodName] = name
        /\ (agents[n][id].Kind = "connect-proxy") = proxy

\* The pass of p has completed successfully and has swept the agents.
SucceededSwept(p) ==
    /\ pc[p] = "done"
    /\ result[p] = "ok"
    /\ CallsOf(p, "listAgents") # {}

\* C28: after every pass that completes successfully, on the found and on
\* the not-found branch, every agent holds a service instance correlated to
\* the key for a pod if and only if it holds the sidecar-proxy instance of
\* that pod; this includes pairs that an earlier, aborted pass left broken.
C28_ServiceProxyPaired ==
    \A p \in Procs :
        SucceededSwept(p) =>
            \A n \in Nodes : \A q \in Pods :
                HoldsInstanceOf(n, req[p], q.Name, FALSE)
                    <=> HoldsInstanceOf(n, req[p], q.Name, TRUE)

\* The successful pass lists a and the non-injected pod n at b's address;
\* b's service instance, registered by a pass that failed on b's proxy, is
\* still held without its proxy.
C28_BrokenPairSurvives ==
    /\ SucceededSwept(1)
    /\ serviceEndpoints[1] # <<>>
    /\ ListedInjectedPods(serviceEndpoints[1][1]) = {PodA}
    /\ HoldsInstanceOf(2, req[1], PodB.Name, FALSE)
    /\ ~HoldsInstanceOf(2, req[1], PodB.Name, TRUE)

\* The args of a flag of a step, or the file the step uses when the command
\* does not give the flag.
ArgsOrDefault(command, step, flag, default) ==
    IF Occurrences(command, step, flag) = 0 THEN {default} ELSE ArgsOf(command, step, flag)

\* The file the connect-init step of a command writes the proxy ID to, and
\* the file it writes the ACL token to.
WrittenProxyIDFiles(command) ==
    ArgsOrDefault(command, "connect-init", "-proxy-id-file", "/consul/connect-inject/proxyid")

WrittenTokenFiles(command) ==
    ArgsOrDefault(command, "connect-init", "-acl-token-sink", "/consul/connect-inject/acl-token")

\* C29: in every plan, single-service or multiport, each step that reads the
\* proxy ID reads the file the plan's connect-init step writes it to, and
\* each step that reads the ACL token reads the connect-init step's token
\* sink.
C29_PlanFilesConsistent ==
    \A i \in 1..Len(initContainers) :
        Planned(i) =>
            \A k \in 1..Len(initContainers[i].Command) :
                /\ initContainers[i].Command[k].flag = "-proxy-id" =>
                       initContainers[i].Command[k].arg
                           \in WrittenProxyIDFiles(initContainers[i].Command)
                /\ initContainers[i].Command[k].flag = "-token-file" =>
                       initContainers[i].Command[k].arg
                           \in WrittenTokenFiles(initContainers[i].Command)

\* The container of call i runs as root, privileged, with NET_ADMIN added.
RunsAsRoot(i) ==
    /\ initContainers[i].SecurityContext # <<>>
    /\ initContainers[i].SecurityContext[1].RunAsUser = 0
    /\ initContainers[i].SecurityContext[1].RunAsGroup = 0
    /\ initContainers[i].SecurityContext[1].Privileged
    /\ initContainers[i].SecurityContext[1].Add = {"NET_ADMIN"}

\* The container of call i has none of the three: uid 0, the privileged
\* flag, an added capability.
NoPrivilege(i) ==
    \/ initContainers[i].SecurityContext = <<>>
    \/ /\ initContainers[i].SecurityContext[1].RunAsUser # 0
       /\ ~initContainers[i].SecurityContext[1].Privileged
       /\ initContainers[i].SecurityContext[1].Add = {}

HasRedirectStep(i) ==
    "redirect-traffic" \in StepsOf(initContainers[i].Command)

\* C30: a returned container runs as root, privileged, with NET_ADMIN added
\* exactly when its command has the redirect-traffic step; without the step
\* it has neither uid 0 nor the privileged flag nor an added capability.
C30_RootOnlyForRedirect ==
    \A i \in 1..Len(initContainers) :
        Planned(i) =>
            /\ RunsAsRoot(i) <=> HasRedirectStep(i)
            /\ ~HasRedirectStep(i) => NoPrivilege(i)

\* A multiport plan with an auth method has the step and runs as root,
\* while transparent proxying comes from the namespace label.
C30_Witness ==
    /\ Len(initContainers) = 2
    /\ Planned(2)
    /\ HasRedirectStep(2)
    /\ RunsAsRoot(2)
    /\ webhook.AuthMethod # ""
=============================================================================
